---- MODULE Spec2Model ----
(***************************************************************************)
(* Bootstrap / jackknife PCA of src/stats.py and src/confidence.py.        *)
(*                                                                         *)
(* Matrices are sequences of rows.  Index VALUES computed by the code      *)
(* (argmax results, drawn row numbers, loop counters) keep the code's      *)
(* 0-based values; they are shifted by one where a sequence is accessed.   *)
(*                                                                         *)
(* Loadings and eigenvalues are integers (each eigenvector is known up to  *)
(* a positive factor, which no step below depends on).  A Pearson          *)
(* correlation is kept exactly as the pair (num, den2) that stands         *)
(* for num / sqrt(den2), so that sign tests and comparisons of absolute    *)
(* values are exact.                                                       *)
(*                                                                         *)
(* numpy.linalg.eig is not code of the repository: its result for a        *)
(* correlation matrix is any member of EigPool, and it raises LinAlgError  *)
(* when standardisation produced NaN (a column of zero variance).          *)
(***************************************************************************)
EXTENDS Integers, Sequences, FiniteSets, TLC

VARIABLES
    pc,                              \* position of the running call
    indicators,                      \* argument: the observation matrix
    empiric_eigen_vectors,           \* argument: eigenvectors of the PCA of indicators
    \* locals of bootstrap_and_apply_pca
    can_reorder,
    bootstrap_sample,
    bootstraped_eigen_vectors,
    correlation,
    max_correlation,
    final_bootstraped_eigen_vectors,
    final_correlation_indexes,
    final_correlation_matrix,
    final_bootstrap_sample,
    result,                          \* value returned by bootstrap_and_apply_pca
    \* locals of generate_bootstraped_pcas_on_indicators
    sample_number,                   \* the loop variable "_" of range(NUMBER_OF_SAMPLES)
    bootstraped_pcas,
    bootstraped_data,
    \* locals of jacknife_and_apply_pca
    jacknifed_data,
    jacknifed_pca,
    sample_index,                    \* position of "for sample in jacknifed_data"
    \* history (not program state)
    row_indexes,                     \* rng.integers results of the latest generate_bootstraped_dataset
    rejected_sample,                 \* sample of the latest rejected draw of the running call
    accepted_log,                    \* per returned draw: its sample, eigenvectors and correlation
    eig_log,                         \* per apply_pca call of the jackknife: input and eig result
    \* a direct call of apply_pca
    eig_returned,                    \* (eigen_values, eigen_vectors) as eig returned them
    eig_again,                       \* what eig returns in a second call on the same data
    pca_again,                       \* what the second call of apply_pca returns
    pca,                             \* value returned by apply_pca
    error,                           \* class of the exception that ended the call, if any
    \* arrays as objects: which buffer each name refers to
    heap,                            \* buffer number -> contents
    names,                           \* name -> buffer number
    \* produce_confidence_intervals
    jacknifed_pcas,                  \* argument
    significant_level,               \* argument
    number_below_empiric,
    bias_corrector,
    distribution_skewness,
    lower_confidence_location,
    upper_confidence_location,
    lower_confidence_index,
    upper_confidence_index,
    lower_confidence_intervals,
    upper_confidence_intervals,
    \* get_scores_for_indicators
    config,                          \* argument: the indicators with their pillar scores
    scores,                          \* the dictionary being filled
    pillar_number,                   \* position of "for pillar in PILLARS"
    indicator_number,                \* position of "for indicator in config"
    \* independance.apply_pca_on_indicators
    independance_eig,                \* (eigen_values, eigen_vectors) as eig returned them
    independance_pca                 \* value returned by apply_pca_on_indicators

bootVars == <<can_reorder, bootstrap_sample, bootstraped_eigen_vectors, correlation,
              max_correlation, final_bootstraped_eigen_vectors, final_correlation_indexes,
              final_correlation_matrix, final_bootstrap_sample, result>>
genVars == <<sample_number, bootstraped_pcas, bootstraped_data>>
jackVars == <<jacknifed_data, jacknifed_pca, sample_index>>
histVars == <<row_indexes, rejected_sample, accepted_log, eig_log>>
pcaVars == <<eig_returned, pca, eig_again, pca_again>>
frameVars == <<heap, names>>
intervalVars == <<jacknifed_pcas, significant_level, number_below_empiric, bias_corrector,
                  distribution_skewness, lower_confidence_location,
                  upper_confidence_location, lower_confidence_index, upper_confidence_index,
                  lower_confidence_intervals, upper_confidence_intervals>>
scoreVars == <<config, scores, pillar_number, indicator_number>>
independanceVars == <<independance_eig, independance_pca>>
vars == <<pc, indicators, empiric_eigen_vectors, bootVars, genVars, jackVars, histVars,
          pcaVars, error, frameVars, intervalVars, scoreVars, independanceVars>>

----------------------------------------------------------------------------
(* numpy primitives *)

RECURSIVE SumTo(_, _)
SumTo(x, n) == IF n = 0 THEN 0 ELSE x[n] + SumTo(x, n - 1)

sum(x) == SumTo(x, Len(x))

abs(v) == IF v < 0 THEN -v ELSE v

sign(v) == IF v > 0 THEN 1 ELSE IF v < 0 THEN -1 ELSE 0

NumRows(M) == Len(M)

NumCols(M) == Len(M[1])

\* M[:, j]
Column(M, j) == [r \in 1..NumRows(M) |-> M[r][j + 1]]

\* M.T
Transpose(M) == [c \in 1..NumCols(M) |-> [r \in 1..NumRows(M) |-> M[r][c]]]

\* argmax over positions 0..n-1: the first position holding the maximum
ArgmaxFirst(n, greater) ==
    CHOOSE i \in 0..(n - 1) :
        \A k \in 0..(n - 1) : ~greater[k, i] /\ (k < i => greater[i, k])

\* n^2 times the covariance of two vectors of length n
Covariance(x, y) == Len(x) * sum([k \in 1..Len(x) |-> x[k] * y[k]]) - sum(x) * sum(y)

\* corrcoef(x, y)[0][1] as num / sqrt(den2)
corrcoef(x, y) ==
    [num |-> Covariance(x, y), den2 |-> Covariance(x, x) * Covariance(y, y)]

\* |a| > |b| for two correlations
AbsGreater(a, b) == a.num * a.num * b.den2 > b.num * b.num * a.den2

\* Mutant of delete: removes every row equal to row i, not row i alone.
delete_by_value(data, i) == SelectSeq(data, LAMBDA row : row # data[i + 1])

\* delete(data, i, 0)
delete(data, i) == SubSeq(data, 1, i) \o SubSeq(data, i + 2, Len(data))

\* rng.integers(low, high): high is exclusive
RngIntegers(low, high) == low..(high - 1)

----------------------------------------------------------------------------
(* src/stats.py *)

\* Mutant of generate_bootstraped_dataset: rows inserted at the front.
generate_bootstraped_dataset_reversed(data, draws) ==
    [k \in 1..Len(data) |-> data[draws[Len(data) + 1 - k] + 1]]

\* The bootstrap sample built from the successive rng.integers results `draws`.
generate_bootstraped_dataset(data, draws) ==
    [k \in 1..Len(data) |-> data[draws[k] + 1]]

\* Every sequence of results the rng can give during one call.
BootstrapDraws(data) == [1..Len(data) -> RngIntegers(0, Len(data))]

\* Mutant of jacknife: range(1, len(data) + 1) taken modulo the length.
jacknife_next_row(data) == [i \in 1..Len(data) |-> delete(data, i % Len(data))]

jacknife(data) == [i \in 1..Len(data) |-> delete(data, i - 1)]

\* std(copied_data, axis=0) has a zero: the division gives NaN, corrcoef keeps
\* it and eig raises LinAlgError.
ZeroVarianceColumn(data) ==
    \E c \in 1..NumCols(data) : \A r \in 1..NumRows(data) : data[r][c] = data[1][c]

\* Mutant of NotFinite: a zero standard deviation goes unnoticed.
NoRowToAverage(data) == Len(data) = 0

\* The correlation matrix handed to eig holds NaN, and eig raises LinAlgError:
\* there is no row to average, or the division on line 69 was 0/0.
NotFinite(data) == Len(data) = 0 \/ ZeroVarianceColumn(data)

\* argmax(abs(eigen_vectors), axis=0)
max_abs_index(eigen_vectors) ==
    [c \in 1..NumCols(eigen_vectors) |->
        ArgmaxFirst(NumRows(eigen_vectors),
                    [r1 \in 0..(NumRows(eigen_vectors) - 1), r2 \in 0..(NumRows(eigen_vectors) - 1) |->
                        abs(eigen_vectors[r1 + 1][c]) > abs(eigen_vectors[r2 + 1][c])])]

\* Mutant of signs: the sign of the first loading of each eigenvector.
signs_of_first_loading(eigen_vectors) ==
    [c \in 1..NumCols(eigen_vectors) |-> sign(eigen_vectors[1][c])]

\* sign(eigen_vectors[max_abs_index, range(n)])
signs(eigen_vectors) ==
    [c \in 1..NumCols(eigen_vectors) |->
        sign(eigen_vectors[max_abs_index(eigen_vectors)[c] + 1][c])]

\* Mutant of AdjustSigns: the eigenvectors as the solver left them.
LeaveSigns(eigen_vectors) == eigen_vectors

\* eigen_vectors * signs[newaxis, :]
AdjustSigns(eigen_vectors) ==
    [r \in 1..NumRows(eigen_vectors) |->
        [c \in 1..NumCols(eigen_vectors) |-> eigen_vectors[r][c] * signs(eigen_vectors)[c]]]

\* Mutant of SortedPositions: equal keys come out in reverse order.
SortedPositionsTiesReversed(keys) ==
    LET n == Len(keys)
        Rank(i) == Cardinality({j \in 1..n : keys[j] > keys[i] \/ (keys[j] = keys[i] /\ j > i)}) + 1
    IN  [k \in 1..n |-> CHOOSE i \in 1..n : Rank(i) = k]

\* Positions of the pairs after eigen_pairs.sort(key=x[0], reverse=True); the
\* sort is stable, so equal keys keep their order.
SortedPositions(keys) ==
    LET n == Len(keys)
        Rank(i) == Cardinality({j \in 1..n : keys[j] > keys[i] \/ (keys[j] = keys[i] /\ j < i)}) + 1
    IN  [k \in 1..n |-> CHOOSE i \in 1..n : Rank(i) = k]

\* Mutant of apply_pca: the eigenvalues are sorted, the eigenvectors keep the
\* solver's order.
apply_pca_vectors_unsorted(eigen) ==
    LET eigen_values == eigen.eigen_values
        keys == [i \in 1..Len(eigen_values) |-> abs(eigen_values[i])]
        order == SortedPositions(keys)
        eigen_values_sorted == [k \in 1..Len(order) |-> keys[order[k]]]
        eigen_values_total == sum(eigen_values)
    IN  [eigen_values |-> eigen_values_sorted,
         eigen_vectors |-> AdjustSigns(eigen.eigen_vectors),
         explained_variance |->
            [k \in 1..Len(order) |-> [num |-> eigen_values_sorted[k], den |-> eigen_values_total]]]

\* Mutant of apply_pca: eigen_vectors_sorted is returned without the final .T.
apply_pca_component_major(eigen) ==
    LET eigen_values == eigen.eigen_values
        eigen_vectors == Transpose(AdjustSigns(eigen.eigen_vectors))
        keys == [i \in 1..Len(eigen_values) |-> abs(eigen_values[i])]
        order == SortedPositions(keys)
        eigen_values_sorted == [k \in 1..Len(order) |-> keys[order[k]]]
        eigen_vectors_sorted == [k \in 1..Len(order) |-> eigen_vectors[order[k]]]
        eigen_values_total == sum(eigen_values)
    IN  [eigen_values |-> eigen_values_sorted,
         eigen_vectors |-> eigen_vectors_sorted,
         explained_variance |->
            [k \in 1..Len(order) |-> [num |-> eigen_values_sorted[k], den |-> eigen_values_total]]]

\* Mutant of apply_pca: the total is taken over the absolute values.
apply_pca_total_absolute(eigen) ==
    LET eigen_values == eigen.eigen_values
        eigen_vectors == Transpose(AdjustSigns(eigen.eigen_vectors))
        keys == [i \in 1..Len(eigen_values) |-> abs(eigen_values[i])]
        order == SortedPositions(keys)
        eigen_values_sorted == [k \in 1..Len(order) |-> keys[order[k]]]
        eigen_vectors_sorted == [k \in 1..Len(order) |-> eigen_vectors[order[k]]]
        eigen_values_total == sum(keys)
    IN  [eigen_values |-> eigen_values_sorted,
         eigen_vectors |-> Transpose(eigen_vectors_sorted),
         explained_variance |->
            [k \in 1..Len(order) |-> [num |-> eigen_values_sorted[k], den |-> eigen_values_total]]]

\* Mutant of apply_pca: the total leaves out the last eigenvalue.
apply_pca_total_short(eigen) ==
    LET eigen_values == eigen.eigen_values
        eigen_vectors == Transpose(AdjustSigns(eigen.eigen_vectors))
        keys == [i \in 1..Len(eigen_values) |-> abs(eigen_values[i])]
        order == SortedPositions(keys)
        eigen_values_sorted == [k \in 1..Len(order) |-> keys[order[k]]]
        eigen_vectors_sorted == [k \in 1..Len(order) |-> eigen_vectors[order[k]]]
        eigen_values_total == SumTo(eigen_values, Len(eigen_values) - 1)
    IN  [eigen_values |-> eigen_values_sorted,
         eigen_vectors |-> Transpose(eigen_vectors_sorted),
         explained_variance |->
            [k \in 1..Len(order) |-> [num |-> eigen_values_sorted[k], den |-> eigen_values_total]]]

\* apply_pca from the eigensolver's result on: eigen is the pair
\* (eigen_values, eigen_vectors) returned by eig(correlation_matrix).
\* Fractions are kept as (num, den).
apply_pca(eigen) ==
    LET eigen_values == eigen.eigen_values
        eigen_vectors == Transpose(AdjustSigns(eigen.eigen_vectors))
        keys == [i \in 1..Len(eigen_values) |-> abs(eigen_values[i])]
        order == SortedPositions(keys)
        eigen_values_sorted == [k \in 1..Len(order) |-> keys[order[k]]]
        eigen_vectors_sorted == [k \in 1..Len(order) |-> eigen_vectors[order[k]]]
        eigen_values_total == sum(eigen_values)
    IN  [eigen_values |-> eigen_values_sorted,
         eigen_vectors |-> Transpose(eigen_vectors_sorted),
         explained_variance |->
            [k \in 1..Len(order) |-> [num |-> eigen_values_sorted[k], den |-> eigen_values_total]]]

correlation_matrix_between_pcas(eigen_vectors_a, eigen_vectors_b) ==
    LET nb_cols == NumCols(eigen_vectors_a)
    IN  [i \in 1..nb_cols |->
            [j \in 1..nb_cols |->
                corrcoef(Column(eigen_vectors_a, i - 1), Column(eigen_vectors_b, j - 1))]]

----------------------------------------------------------------------------
(* Inputs *)

\* Results numpy.linalg.eig may return for three variables: two orthogonal
\* bases (one eigenvector per column, each known up to a positive factor,
\* signs as the solver left them) under every order of the eigenvalues
\* 5, 3, 1.  No column is constant, so every correlation is defined.
EigenVectorPool ==
    { << <<-1, -2,  2>>,
         << 2,  1,  2>>,
         << 2, -2, -1>> >>,
      << << 2,  0,  3>>,
         <<-3,  1,  1>>,
         << 3,  1, -1>> >> }

EigenValuePool ==
    { <<5, 3, 1>>, <<5, 1, 3>>, <<3, 5, 1>>, <<3, 1, 5>>, <<1, 5, 3>>, <<1, 3, 5>> }

EigPool == [eigen_values : EigenValuePool, eigen_vectors : EigenVectorPool]

\* Observation matrices (rows = observations, columns = indicators).
IndicatorInputs ==
    { << <<1, 2, 3>>, <<2, 3, 1>> >>,
      << <<1, 2, 3>>, <<2, 3, 1>>, <<3, 1, 2>> >>,
      << <<1, 2, 3>>, <<1, 2, 3>>, <<3, 1, 2>> >>,
      << <<1, 2, 3>>, <<2, 3, 1>>, <<1, 2, 3>>, <<3, 1, 2>> >> }

\* The empirical eigenvectors are computed beforehand by apply_pca.
EmpiricInputs == {apply_pca(e).eigen_vectors : e \in EigPool}

----------------------------------------------------------------------------
(* src/confidence.py: bootstrap_and_apply_pca *)

\* argmax(absolute_correlation, axis=0): one row number per column
ArgmaxAxis0(corr) ==
    [j \in 1..NumCols(corr) |->
        ArgmaxFirst(NumRows(corr),
                    [i1 \in 0..(NumRows(corr) - 1), i2 \in 0..(NumRows(corr) - 1) |->
                        AbsGreater(corr[i1 + 1][j], corr[i2 + 1][j])])]

\* unique(max_correlation)
unique(indexes) == {indexes[k] : k \in 1..Len(indexes)}

\* Mutant of CanReorder: no mapping is ever taken as valid.
NeverReorder(eigen_vectors, indexes) == FALSE

\* len(bootstraped_eigen_vectors[0]) == len(unique(max_correlation))
CanReorder(eigen_vectors, indexes) == Len(eigen_vectors[1]) = Cardinality(unique(indexes))

\* Mutant of KeepAccepted: the first draw is kept, accepted or not.
KeepFirstDraw(can, drawn, final) == IF final = <<>> THEN drawn ELSE final

\* The assignments under "if can_reorder": a final_* variable takes the value
\* of the draw only when the draw is accepted.
KeepAccepted(can, drawn, final) == IF can THEN drawn ELSE final

\* M[:, indexes]
TakeColumns(M, indexes) ==
    [r \in 1..NumRows(M) |-> [k \in 1..Len(indexes) |-> M[r][indexes[k] + 1]]]

\* for index in original_axis (from `index` on):
\*     if final_correlation_matrix[index][index] < 0:
\*         final_bootstraped_eigen_vectors[index, :] *= -1
RECURSIVE ReflectFrom(_, _, _, _)
ReflectFrom(eigen_vectors, corr, original_axis, index) ==
    IF index >= Len(original_axis)
    THEN eigen_vectors
    ELSE LET at == original_axis[index + 1]
             reflected ==
                 IF corr[at + 1][at + 1].num < 0
                 THEN [eigen_vectors EXCEPT ![at + 1] =
                          [c \in 1..Len(eigen_vectors[at + 1]) |-> eigen_vectors[at + 1][c] * (-1)]]
                 ELSE eigen_vectors
         IN  ReflectFrom(reflected, corr, original_axis, index + 1)

\* Lines 121-129: reordering and reflection of the accepted draw.
ReorderAndReflect(eigen_vectors, indexes, corr) ==
    LET original_axis == [k \in 1..Len(eigen_vectors[1]) |-> k - 1]
        reordered == TakeColumns(eigen_vectors, indexes)
        reordered_correlation == TakeColumns(corr, indexes)
    IN  ReflectFrom(reordered, reordered_correlation, original_axis, 0)

None == <<>>

ClearBootstrapLocals ==
    /\ can_reorder' = FALSE
    /\ bootstrap_sample' = None
    /\ bootstraped_eigen_vectors' = None
    /\ correlation' = None
    /\ max_correlation' = None
    /\ final_bootstraped_eigen_vectors' = None
    /\ final_correlation_indexes' = None
    /\ final_correlation_matrix' = None
    /\ final_bootstrap_sample' = None
    /\ result' = None

\* Entry of bootstrap_and_apply_pca (lines 98-102) under the frames `below`.
EnterBootstrap(below) ==
    /\ pc' = <<"boot_loop">> \o below
    /\ ClearBootstrapLocals
    /\ row_indexes' = None
    /\ rejected_sample' = None

\* A direct call bootstrap_and_apply_pca(indicators, empiric_eigen_vectors).
CallBootstrap ==
    /\ pc = <<"idle">>
    /\ EnterBootstrap(<<>>)
    /\ accepted_log' = <<>>
    /\ UNCHANGED <<pcaVars, error, frameVars, intervalVars>>
    /\ UNCHANGED <<scoreVars, independanceVars>>
    /\ UNCHANGED <<indicators, empiric_eigen_vectors, genVars, jackVars, eig_log>>

\* One pass of "while not can_reorder" (lines 105-119).  draws are the rng's
\* results in generate_bootstraped_dataset and eigen is what eig returns in
\* apply_pca if the sample lets it be reached.
BootstrapDraw ==
    /\ Head(pc) = "boot_loop"
    /\ ~can_reorder
    /\ \E eigen \in EigPool :
       \E vectors \in {apply_pca(eigen).eigen_vectors} :
       \E corr \in {correlation_matrix_between_pcas(empiric_eigen_vectors, vectors)} :
       \E indexes \in {ArgmaxAxis0(corr)} :
       \E can \in {CanReorder(vectors, indexes)} :
       \E draws \in BootstrapDraws(indicators) :
       \E sample \in {generate_bootstraped_dataset(indicators, draws)} :
         /\ row_indexes' = draws
         /\ bootstrap_sample' = sample
         /\ IF NotFinite(sample)
            THEN /\ pc' = <<"raised">>
                 /\ error' = "LinAlgError"
                 /\ UNCHANGED <<can_reorder, bootstraped_eigen_vectors, correlation,
                                max_correlation, final_bootstraped_eigen_vectors,
                                final_correlation_indexes, final_correlation_matrix,
                                final_bootstrap_sample, rejected_sample, accepted_log>>
            ELSE /\ bootstraped_eigen_vectors' = vectors
                 /\ correlation' = corr
                 /\ max_correlation' = indexes
                 /\ can_reorder' = can
                 /\ final_bootstraped_eigen_vectors' =
                        KeepAccepted(can, vectors, final_bootstraped_eigen_vectors)
                 /\ final_correlation_indexes' =
                        KeepAccepted(can, indexes, final_correlation_indexes)
                 /\ final_bootstrap_sample' =
                        KeepAccepted(can, sample, final_bootstrap_sample)
                 /\ final_correlation_matrix' =
                        KeepAccepted(can, corr, final_correlation_matrix)
                 /\ rejected_sample' = IF can THEN rejected_sample ELSE sample
                 /\ accepted_log' =
                        IF can
                        THEN Append(accepted_log,
                                    [sample |-> sample, eigen_vectors |-> vectors,
                                     correlation |-> corr])
                        ELSE accepted_log
                 /\ pc' = pc
                 /\ error' = error
    /\ UNCHANGED <<pcaVars, frameVars, intervalVars>>
    /\ UNCHANGED <<scoreVars, independanceVars>>
    /\ UNCHANGED <<indicators, empiric_eigen_vectors, result, genVars, jackVars, eig_log>>

\* After the loop (lines 121-129): reorder, reflect, return.
BootstrapReturn ==
    /\ Head(pc) = "boot_loop"
    /\ can_reorder
    /\ result' = <<final_bootstrap_sample,
                   ReorderAndReflect(final_bootstraped_eigen_vectors,
                                     final_correlation_indexes, final_correlation_matrix)>>
    /\ pc' = <<"boot_returned">> \o Tail(pc)
    /\ UNCHANGED <<pcaVars, error, frameVars, intervalVars>>
    /\ UNCHANGED <<scoreVars, independanceVars>>
    /\ UNCHANGED <<indicators, empiric_eigen_vectors, can_reorder, bootstrap_sample,
                   bootstraped_eigen_vectors, correlation, max_correlation,
                   final_bootstraped_eigen_vectors, final_correlation_indexes,
                   final_correlation_matrix, final_bootstrap_sample,
                   genVars, jackVars, histVars>>

BlankLocals ==
    /\ can_reorder = FALSE
    /\ bootstrap_sample = None
    /\ bootstraped_eigen_vectors = None
    /\ correlation = None
    /\ max_correlation = None
    /\ final_bootstraped_eigen_vectors = None
    /\ final_correlation_indexes = None
    /\ final_correlation_matrix = None
    /\ final_bootstrap_sample = None
    /\ result = None
    /\ sample_number = 0
    /\ bootstraped_pcas = <<>>
    /\ bootstraped_data = <<>>
    /\ jacknifed_data = None
    /\ jacknifed_pca = <<>>
    /\ sample_index = 0
    /\ row_indexes = None
    /\ rejected_sample = None
    /\ accepted_log = <<>>
    /\ eig_log = <<>>
    /\ eig_returned = None
    /\ eig_again = None
    /\ pca_again = None
    /\ pca = None
    /\ error = None
    /\ jacknifed_pcas = None
    /\ significant_level = None
    /\ number_below_empiric = None
    /\ bias_corrector = None
    /\ distribution_skewness = None
    /\ lower_confidence_location = None
    /\ upper_confidence_location = None
    /\ lower_confidence_index = None
    /\ upper_confidence_index = None
    /\ lower_confidence_intervals = None
    /\ upper_confidence_intervals = None
    /\ config = None
    /\ scores = None
    /\ pillar_number = 0
    /\ indicator_number = 0
    /\ independance_eig = None
    /\ independance_pca = None

\* The specifications with arrays as values keep no buffer.
NoArrays ==
    /\ heap = <<>>
    /\ names = <<>>

\* bootstrap_and_apply_pca called once on a three-row observation matrix.
InitAlign ==
    /\ pc = <<"idle">>
    /\ indicators \in {d \in IndicatorInputs : Len(d) = 3 /\ d[1] # d[2]}
    /\ empiric_eigen_vectors \in EmpiricInputs
    /\ BlankLocals
    /\ NoArrays

NextAlign == CallBootstrap \/ BootstrapDraw \/ BootstrapReturn

SpecAlign == InitAlign /\ [][NextAlign]_vars

----------------------------------------------------------------------------
(* Claims about bootstrap_and_apply_pca, checked under SpecAlign *)

Returned == Head(pc) = "boot_returned"

\* The candidate component the claims call the best match of empirical
\* component i: the column j maximising |R[i][j]|, one per row of R.
BestCandidates(corr) ==
    [i \in 1..NumRows(corr) |->
        ArgmaxFirst(NumCols(corr),
                    [j1 \in 0..(NumCols(corr) - 1), j2 \in 0..(NumCols(corr) - 1) |->
                        AbsGreater(corr[i][j1 + 1], corr[i][j2 + 1])])]

Negated(x) == [k \in 1..Len(x) |-> -x[k]]

\* C1: a draw is accepted if and only if the best candidates of the empirical
\* components (argmax_j |R[i][j]| for each i) are pairwise distinct.
C1_AcceptedIffBestCandidatesDistinct ==
    (pc # <<"raised">> /\ correlation # None) =>
        (can_reorder <=>
            Cardinality(unique(BestCandidates(correlation))) = NumRows(correlation))

\* C2: in the returned matrix, component i is the candidate component
\* argmax_j |R[i][j]| (loadings compared up to sign, which the reflection
\* step decides).
C2_ComponentIsBestCandidate ==
    Returned =>
        \A i \in 0..(NumCols(result[2]) - 1) :
            \A r \in 1..NumRows(result[2]) :
                abs(result[2][r][i + 1]) =
                    abs(bootstraped_eigen_vectors[r][BestCandidates(correlation)[i + 1] + 1])

\* C3: the reflection negates the whole loading vector of component i, and
\* nothing else, exactly when the matched-pair correlation R[i][i] is
\* negative; every returned component i then correlates non-negatively with
\* empirical component i.
C3_ReflectsWholeComponent ==
    Returned =>
        LET reordered == TakeColumns(final_bootstraped_eigen_vectors, final_correlation_indexes)
            matched == TakeColumns(final_correlation_matrix, final_correlation_indexes)
        IN  \A i \in 0..(NumCols(reordered) - 1) :
                /\ Column(result[2], i) =
                       IF matched[i + 1][i + 1].num < 0
                       THEN Negated(Column(reordered, i))
                       ELSE Column(reordered, i)
                /\ corrcoef(Column(empiric_eigen_vectors, i), Column(result[2], i)).num >= 0

ComponentOrders(n) == {p \in [1..n -> 1..n] : \A a, b \in 1..n : p[a] = p[b] => a = b}

\* candidate = reference with its components permuted and some of them negated
IsSignedPermutationOf(candidate, reference) ==
    \E p \in ComponentOrders(NumCols(reference)) :
        \A j \in 1..NumCols(reference) :
            \/ Column(candidate, j - 1) = Column(reference, p[j] - 1)
            \/ Column(candidate, j - 1) = Negated(Column(reference, p[j] - 1))

\* C4: round trip: when the candidate eigenvectors of the accepted draw are
\* the empirical ones with components permuted and possibly negated, the
\* returned eigenvectors are the empirical ones.
C4_RoundTrip ==
    (Returned /\ IsSignedPermutationOf(bootstraped_eigen_vectors, empiric_eigen_vectors)) =>
        result[2] = empiric_eigen_vectors

\* C5: the returned pair is the sample of the last draw, which was accepted,
\* with the reordering and reflection of the eigenvectors and correlations
\* computed in that same pass of the loop; each pass draws its own sample
\* and computes its own correlations.
C5_ResultIsLastDraw ==
    /\ (Head(pc) \in {"boot_loop", "boot_returned"} /\ bootstrap_sample # None) =>
          /\ bootstrap_sample = generate_bootstraped_dataset(indicators, row_indexes)
          /\ correlation =
                 correlation_matrix_between_pcas(empiric_eigen_vectors, bootstraped_eigen_vectors)
          /\ max_correlation = ArgmaxAxis0(correlation)
          /\ can_reorder = CanReorder(bootstraped_eigen_vectors, max_correlation)
    /\ Returned =>
          /\ can_reorder
          /\ result[1] = bootstrap_sample
          /\ result[2] = ReorderAndReflect(bootstraped_eigen_vectors, max_correlation, correlation)
          /\ accepted_log[Len(accepted_log)] =
                 [sample |-> result[1], eigen_vectors |-> bootstraped_eigen_vectors,
                  correlation |-> correlation]

\* C5 witness: a call that returns after a rejected draw of another sample.
C5_Witness ==
    Returned /\ rejected_sample # None /\ rejected_sample # result[1]

\* C7: the bootstrap sample has as many rows as the input, and its k-th row is
\* the input row of the k-th drawn index, every index lying in [0, len(data)).
C7_SampleRowsAreDrawnRows ==
    (bootstrap_sample # None) =>
        /\ Len(bootstrap_sample) = Len(indicators)
        /\ \A k \in 1..Len(bootstrap_sample) :
              /\ row_indexes[k] \in 0..(Len(indicators) - 1)
              /\ bootstrap_sample[k] = indicators[row_indexes[k] + 1]
              /\ \E r \in 1..Len(indicators) : bootstrap_sample[k] = indicators[r]

\* C7 witness: a sample that repeats a row and is not in the input's order.
C7_Witness ==
    /\ bootstrap_sample # None
    /\ bootstrap_sample[1] = bootstrap_sample[3]
    /\ bootstrap_sample[1] # indicators[1]
    /\ bootstrap_sample[2] # bootstrap_sample[1]

----------------------------------------------------------------------------
(* src/confidence.py: generate_bootstraped_pcas_on_indicators *)

\* Number of passes of the collecting loop (2000 in the program).
NUMBER_OF_SAMPLES == 2

\* range(n)
range(n) == 0..(n - 1)

\* Mutant of CollectPca: insert(0, ...) instead of append.
CollectPcaInFront(pcas, returned) == <<returned[2]>> \o pcas

\* bootstraped_pcas.append(final_bootstraped_eigen_vectors)
CollectPca(pcas, returned) == Append(pcas, returned[2])

\* bootstraped_data.append(final_bootstrap_sample)
CollectSample(data, returned) == Append(data, returned[1])

\* Entry of generate_bootstraped_pcas_on_indicators (lines 55-56).
CallGenerate ==
    /\ pc = <<"idle">>
    /\ pc' = <<"gen_loop">>
    /\ bootstraped_pcas' = <<>>
    /\ bootstraped_data' = <<>>
    /\ sample_number' = 0
    /\ accepted_log' = <<>>
    /\ UNCHANGED <<pcaVars, error, frameVars, intervalVars>>
    /\ UNCHANGED <<scoreVars, independanceVars>>
    /\ UNCHANGED <<indicators, empiric_eigen_vectors, bootVars, jackVars,
                   row_indexes, rejected_sample, eig_log>>

\* A pass of the for loop starts: the call of bootstrap_and_apply_pca (line 63).
GenerateCall ==
    /\ pc = <<"gen_loop">>
    /\ sample_number \in range(NUMBER_OF_SAMPLES)
    /\ EnterBootstrap(<<"gen_call">>)
    /\ UNCHANGED <<pcaVars, error, frameVars, intervalVars>>
    /\ UNCHANGED <<scoreVars, independanceVars>>
    /\ UNCHANGED <<indicators, empiric_eigen_vectors, genVars, jackVars, accepted_log, eig_log>>

\* The call has returned: the two appends (lines 67-68) and the next value
\* of the loop variable.  The callee's locals are gone.
GenerateCollect ==
    /\ pc = <<"boot_returned", "gen_call">>
    /\ bootstraped_pcas' = CollectPca(bootstraped_pcas, result)
    /\ bootstraped_data' = CollectSample(bootstraped_data, result)
    /\ sample_number' = sample_number + 1
    /\ pc' = <<"gen_loop">>
    /\ ClearBootstrapLocals
    /\ UNCHANGED <<pcaVars, error, frameVars, intervalVars>>
    /\ UNCHANGED <<scoreVars, independanceVars>>
    /\ UNCHANGED <<indicators, empiric_eigen_vectors, jackVars, histVars>>

\* The range is exhausted: return (bootstraped_data, bootstraped_pcas).
GenerateReturn ==
    /\ pc = <<"gen_loop">>
    /\ sample_number \notin range(NUMBER_OF_SAMPLES)
    /\ pc' = <<"gen_returned">>
    /\ UNCHANGED <<pcaVars, error, frameVars, intervalVars>>
    /\ UNCHANGED <<scoreVars, independanceVars>>
    /\ UNCHANGED <<indicators, empiric_eigen_vectors, bootVars, genVars, jackVars, histVars>>

\* generate_bootstraped_pcas_on_indicators called once on the two-row
\* observation matrix.
InitEnsemble ==
    /\ pc = <<"idle">>
    /\ indicators \in {d \in IndicatorInputs : Len(d) = 2}
    /\ empiric_eigen_vectors \in EmpiricInputs
    /\ BlankLocals
    /\ NoArrays

NextEnsemble ==
    \/ CallGenerate
    \/ GenerateCall
    \/ BootstrapDraw
    \/ BootstrapReturn
    \/ GenerateCollect
    \/ GenerateReturn

SpecEnsemble == InitEnsemble /\ [][NextEnsemble]_vars

\* C6: generate_bootstraped_pcas_on_indicators returns NUMBER_OF_SAMPLES
\* samples and NUMBER_OF_SAMPLES eigenvector matrices; the k-th sample is the
\* k-th accepted draw and the k-th matrix is the reordering and reflection of
\* that draw's eigenvectors, whatever was rejected in between.
C6_EnsembleIsTheAcceptedDraws ==
    (pc = <<"gen_returned">>) =>
        /\ Len(bootstraped_data) = NUMBER_OF_SAMPLES
        /\ Len(bootstraped_pcas) = NUMBER_OF_SAMPLES
        /\ Len(accepted_log) = NUMBER_OF_SAMPLES
        /\ \A k \in 1..NUMBER_OF_SAMPLES :
              LET draw == accepted_log[k]
                  indexes == ArgmaxAxis0(draw.correlation)
              IN  /\ CanReorder(draw.eigen_vectors, indexes)
                  /\ bootstraped_data[k] = draw.sample
                  /\ bootstraped_pcas[k] =
                         ReorderAndReflect(draw.eigen_vectors, indexes, draw.correlation)

\* C6 witness: a returned ensemble whose last call rejected a draw and whose
\* first two members differ in sample and in eigenvectors.
C6_Witness ==
    /\ pc = <<"gen_returned">>
    /\ rejected_sample # None
    /\ bootstraped_data[1] # bootstraped_data[2]
    /\ bootstraped_pcas[1] # bootstraped_pcas[2]

----------------------------------------------------------------------------
(* src/confidence.py: jacknife_and_apply_pca *)

\* eig is a function of its argument: a sample the log already holds gets
\* the logged result again.
EigResults(data, log) ==
    IF \E k \in 1..Len(log) : log[k].data = data
    THEN {log[k].eigen : k \in {n \in 1..Len(log) : log[n].data = data}}
    ELSE EigPool

\* Mutant of CurrentSample: the loop never advances in the list.
FirstSample(samples, position) == samples[1]

\* The sample the loop "for sample in jacknifed_data" is at.
CurrentSample(samples, position) == samples[position + 1]

\* Entry of jacknife_and_apply_pca (lines 150-151).
CallJacknife ==
    /\ pc = <<"idle">>
    /\ jacknifed_data' = jacknife(indicators)
    /\ jacknifed_pca' = <<>>
    /\ sample_index' = 0
    /\ eig_log' = <<>>
    /\ pc' = <<"jack_loop">>
    /\ UNCHANGED <<pcaVars, error, frameVars, intervalVars>>
    /\ UNCHANGED <<scoreVars, independanceVars>>
    /\ UNCHANGED <<indicators, empiric_eigen_vectors, bootVars, genVars,
                   row_indexes, rejected_sample, accepted_log>>

\* One pass of the loop (lines 152-154): apply_pca on the sample, append.
JacknifeApply ==
    /\ pc = <<"jack_loop">>
    /\ sample_index < Len(jacknifed_data)
    /\ \E sample \in {CurrentSample(jacknifed_data, sample_index)} :
         IF NotFinite(sample)
         THEN /\ pc' = <<"raised">>
              /\ error' = "LinAlgError"
              /\ UNCHANGED <<jacknifed_pca, sample_index, eig_log>>
         ELSE \E eigen \in EigResults(sample, eig_log) :
                /\ jacknifed_pca' = Append(jacknifed_pca, apply_pca(eigen).eigen_vectors)
                /\ eig_log' = Append(eig_log, [data |-> sample, eigen |-> eigen])
                /\ sample_index' = sample_index + 1
                /\ pc' = pc
                /\ error' = error
    /\ UNCHANGED <<pcaVars, frameVars, intervalVars>>
    /\ UNCHANGED <<scoreVars, independanceVars>>
    /\ UNCHANGED <<indicators, empiric_eigen_vectors, bootVars, genVars, jacknifed_data,
                   row_indexes, rejected_sample, accepted_log>>

\* return jacknifed_data, jacknifed_pca (line 156)
JacknifeReturn ==
    /\ pc = <<"jack_loop">>
    /\ sample_index = Len(jacknifed_data)
    /\ pc' = <<"jack_returned">>
    /\ UNCHANGED <<pcaVars, error, frameVars, intervalVars>>
    /\ UNCHANGED <<scoreVars, independanceVars>>
    /\ UNCHANGED <<indicators, empiric_eigen_vectors, bootVars, genVars, jackVars, histVars>>

\* jacknife_and_apply_pca called once on any of the observation matrices.
InitJacknife ==
    /\ pc = <<"idle">>
    /\ indicators \in IndicatorInputs
    /\ empiric_eigen_vectors = None
    /\ BlankLocals
    /\ NoArrays

NextJacknife == CallJacknife \/ JacknifeApply \/ JacknifeReturn

SpecJacknife == InitJacknife /\ [][NextJacknife]_vars

\* The input without its row i (0-based), rows in their order.
WithoutRow(data, i) ==
    [k \in 1..(Len(data) - 1) |-> IF k <= i THEN data[k] ELSE data[k + 1]]

\* C8: jacknife returns N matrices for N rows; the i-th has N-1 rows and is
\* the input with row i deleted, the other rows in their original order.
C8_JacknifeDeletesRowI ==
    (jacknifed_data # None) =>
        /\ Len(jacknifed_data) = Len(indicators)
        /\ \A i \in 0..(Len(indicators) - 1) :
              /\ Len(jacknifed_data[i + 1]) = Len(indicators) - 1
              /\ jacknifed_data[i + 1] = WithoutRow(indicators, i)

\* C8 witness: the samples of a four-row input with a repeated row.
C8_Witness ==
    /\ jacknifed_data # None
    /\ Len(indicators) = 4
    /\ jacknifed_data[2] = <<indicators[1], indicators[3], indicators[4]>>

\* C9 as stated: no jackknife sample equals another, for every input.
C9_SamplesPairwiseDifferent ==
    (jacknifed_data # None) =>
        \A i, j \in 1..Len(jacknifed_data) : i < j => jacknifed_data[i] # jacknifed_data[j]

\* C9 amended: samples i < j are equal exactly when the input rows i..j are
\* all equal, so the samples are pairwise different exactly when no two
\* consecutive input rows are equal.
C9_SamplesEqualIffRowsBetweenEqual ==
    (jacknifed_data # None) =>
        \A i, j \in 1..Len(jacknifed_data) :
            i < j =>
                ((jacknifed_data[i] = jacknifed_data[j]) <=>
                     (\A k \in i..j : indicators[k] = indicators[i]))

\* C9 witness: an input with a repeated row, not adjacent, whose samples are
\* pairwise different.
C9_Witness ==
    /\ jacknifed_data # None
    /\ \E a, b \in 1..Len(indicators) : a < b /\ indicators[a] = indicators[b]
    /\ \A i, j \in 1..Len(jacknifed_data) : i < j => jacknifed_data[i] # jacknifed_data[j]

\* C10: jacknife_and_apply_pca returns N samples and N eigenvector matrices;
\* the i-th matrix is the eigenvector output of apply_pca on the sample
\* without row i, as apply_pca returned it.
C10_JacknifedPcaIsApplyPcaOfSample ==
    (pc = <<"jack_returned">>) =>
        /\ Len(jacknifed_data) = Len(indicators)
        /\ Len(jacknifed_pca) = Len(indicators)
        /\ Len(eig_log) = Len(indicators)
        /\ \A i \in 0..(Len(indicators) - 1) :
              /\ jacknifed_data[i + 1] = WithoutRow(indicators, i)
              /\ eig_log[i + 1].data = WithoutRow(indicators, i)
              /\ jacknifed_pca[i + 1] = apply_pca(eig_log[i + 1].eigen).eigen_vectors

\* C10 witness: a returned ensemble whose first two eigenvector matrices differ.
C10_Witness ==
    /\ pc = <<"jack_returned">>
    /\ jacknifed_pca[1] # jacknifed_pca[2]

----------------------------------------------------------------------------
(* src/stats.py: apply_pca called directly *)

\* Results of eig for the direct call: those of EigPool, and for three
\* variables a basis whose first and last eigenvectors have their largest
\* loading negative, the last one twice over, under eigenvalues in
\* millionths that add up to the trace 3: a zero eigenvalue that came out
\* as -0.000001, two equal eigenvalues, and two of equal magnitude and
\* opposite sign.
PcaEigPool ==
    EigPool \cup
    [eigen_values : { <<2000000, 1000001, -1>>, <<-1, 2000000, 1000001>>,
                      <<1500000, 0, 1500000>>, <<1, 3000000, -1>>,
                      <<-1, 3000002, -1>> },
     eigen_vectors : { << <<-2,  2, -1>>,
                          << 2,  1, -2>>,
                          <<-1,  2, -2>> >> }]

\* Observation matrices for the direct call: those of IndicatorInputs, one
\* with no row, one with a single row, and two whose second column is
\* constant.
PcaInputs ==
    IndicatorInputs \cup
    { <<>>,
      << <<1, 2, 3>> >>,
      << <<1, 2, 3>>, <<2, 2, 1>> >>,
      << <<1, 2, 3>>, <<2, 2, 1>>, <<3, 2, 2>> >> }

\* apply_pca(indicators) up to the eigensolver (lines 61-72): eig raises or
\* returns.
CallApplyPca ==
    /\ pc = <<"idle">>
    /\ IF NotFinite(indicators)
       THEN /\ pc' = <<"raised">>
            /\ error' = "LinAlgError"
            /\ eig_returned' = eig_returned
       ELSE /\ eig_returned' \in PcaEigPool
            /\ pc' = <<"apply_pca_eig">>
            /\ error' = error
    /\ UNCHANGED <<scoreVars, independanceVars>>
    /\ UNCHANGED <<indicators, empiric_eigen_vectors, bootVars, genVars, jackVars, histVars,
                   pca, eig_again, pca_again, frameVars, intervalVars>>

\* The rest of apply_pca (lines 75-93).
ApplyPcaReturn ==
    /\ pc = <<"apply_pca_eig">>
    /\ pca' = apply_pca(eig_returned)
    /\ pc' = <<"apply_pca_returned">>
    /\ UNCHANGED <<scoreVars, independanceVars>>
    /\ UNCHANGED <<indicators, empiric_eigen_vectors, bootVars, genVars, jackVars, histVars,
                   eig_returned, eig_again, pca_again, error, frameVars, intervalVars>>

InitPca ==
    /\ pc = <<"idle">>
    /\ indicators \in PcaInputs
    /\ empiric_eigen_vectors = None
    /\ BlankLocals
    /\ NoArrays

NextPca == CallApplyPca \/ ApplyPcaReturn

SpecPca == InitPca /\ [][NextPca]_vars

\* Either entry point, jacknife_and_apply_pca or apply_pca, on any of the
\* observation matrices.
NextRows == NextPca \/ NextJacknife

SpecRows == InitPca /\ [][NextRows]_vars

PcaReturned == pc = <<"apply_pca_returned">>

\* C11: the eigenvalues apply_pca returns are in non-increasing order of
\* absolute value (it returns the absolute values), and the sort keeps the
\* pairs together: some one-to-one assignment of the solver's pairs to the
\* returned positions gives, at every position k, the k-th returned value as
\* the magnitude of the pair's eigenvalue and the k-th returned component as
\* the pair's eigenvector, up to its sign.
C11_SortedAndPaired ==
    PcaReturned =>
        LET n == Len(pca.eigen_values)
        IN  /\ \A k \in 1..(n - 1) : pca.eigen_values[k] >= pca.eigen_values[k + 1]
            /\ \E p \in ComponentOrders(n) :
                  \A k \in 1..n :
                      /\ pca.eigen_values[k] = abs(eig_returned.eigen_values[p[k]])
                      /\ \/ Column(pca.eigen_vectors, k - 1) =
                                Column(eig_returned.eigen_vectors, p[k] - 1)
                         \/ Column(pca.eigen_vectors, k - 1) =
                                Negated(Column(eig_returned.eigen_vectors, p[k] - 1))

\* C11 witness: the solver gave the smallest eigenvalue first, and negative.
C11_Witness ==
    /\ PcaReturned
    /\ eig_returned.eigen_values = <<-1, 2000000, 1000001>>
    /\ pca.eigen_values = <<2000000, 1000001, 1>>

\* C12: in the result of apply_pca every component has a positive loading
\* that no loading of the component exceeds in absolute value.
C12_LargestLoadingPositive ==
    PcaReturned =>
        \A k \in 1..NumCols(pca.eigen_vectors) :
            \E r \in 1..NumRows(pca.eigen_vectors) :
                /\ pca.eigen_vectors[r][k] > 0
                /\ \A r2 \in 1..NumRows(pca.eigen_vectors) :
                       abs(pca.eigen_vectors[r2][k]) <= pca.eigen_vectors[r][k]

\* C12 witness: the solver returned an eigenvector whose largest loading,
\* the first one, was negative.
C12_Witness ==
    /\ PcaReturned
    /\ eig_returned.eigen_vectors[1][1] = -2
    /\ eig_returned.eigen_vectors[2][1] = 2

\* The solver's pair that comes k-th by magnitude of eigenvalue; among equal
\* magnitudes the solver's order decides.
KthPair(values, k) ==
    CHOOSE i \in 1..Len(values) :
        Cardinality({j \in 1..Len(values) :
                        \/ abs(values[j]) > abs(values[i])
                        \/ (abs(values[j]) = abs(values[i]) /\ j < i)}) = k - 1

\* An eigenvector with its sign chosen so that the first of its largest
\* loadings is positive.
Canonical(v) ==
    LET top == CHOOSE r \in 1..Len(v) :
                   /\ \A r2 \in 1..Len(v) : abs(v[r2]) <= abs(v[r])
                   /\ \A r2 \in 1..(r - 1) : abs(v[r2]) < abs(v[r])
    IN  IF v[top] < 0 THEN Negated(v) ELSE v

C14_ExplainedVarianceSumsToOne ==
    PcaReturned =>
        LET fractions == pca.explained_variance
            values == eig_returned.eigen_values
            total == sum([k \in 1..Len(fractions) |-> fractions[k].num])
            den == fractions[1].den
            negative == sum([k \in 1..Len(values) |-> IF values[k] < 0 THEN -values[k] ELSE 0])
        IN  /\ \A k \in 1..Len(fractions) : fractions[k].den = den
            /\ den > 0
            /\ total - den = 2 * negative
            /\ (total - den) * 100000 <= den

\* C14 witness: a result computed from a negative eigenvalue.
C14_Witness ==
    /\ PcaReturned
    /\ \E k \in 1..Len(eig_returned.eigen_values) : eig_returned.eigen_values[k] < 0

\* C16: with a column of zero variance apply_pca fails with a
\* DegenerateColumnError.
C16_DegenerateColumnError ==
    (pc # <<"idle">> /\ Len(indicators) > 0 /\ ZeroVarianceColumn(indicators)) =>
        (pc = <<"raised">> /\ error = "DegenerateColumnError")

\* What the code does with a column whose standard deviation is zero:
\* apply_pca returns nothing, eig raises LinAlgError on the NaN the division
\* left.
C16_ZeroVarianceRaisesLinAlgError ==
    (pc # <<"idle">> /\ Len(indicators) > 0 /\ ZeroVarianceColumn(indicators)) =>
        (pc = <<"raised">> /\ error = "LinAlgError" /\ pca = None /\ eig_returned = None)

\* C16 witness: the call on three rows with a constant column has raised.
C16_Witness ==
    /\ pc = <<"raised">>
    /\ Len(indicators) = 3
    /\ ZeroVarianceColumn(indicators)

\* C17: with fewer than 2 rows neither apply_pca nor jacknife_and_apply_pca
\* returns: the call ends with an InsufficientRowsError.
C17_InsufficientRowsError ==
    (Len(indicators) < 2) =>
        /\ pc # <<"apply_pca_returned">>
        /\ pc # <<"jack_returned">>
        /\ (pc = <<"raised">> => error = "InsufficientRowsError")

----------------------------------------------------------------------------
(* The arrays of the four functions as objects.  A name refers to a buffer  *)
(* by its number in heap; 0 is an unbound name.  array(...), delete(...),   *)
(* arithmetic and indexing by an integer array give a new buffer; a plain   *)
(* assignment binds a second name to the same buffer; an assignment to      *)
(* x[index, :] writes into the buffer x refers to.                          *)

\* Buffers 1 and 2 are the caller's arrays.
CallerBuffers(h) == SubSeq(h, 1, 2)

Unbound == 0

CallerNames ==
    [indicators |-> 1, empiric_eigen_vectors |-> 2, copied_data |-> Unbound,
     bootstrap_sample |-> Unbound, bootstraped_eigen_vectors |-> Unbound,
     final_bootstraped_eigen_vectors |-> Unbound, final_bootstrap_sample |-> Unbound,
     returned |-> <<>>]

\* (copied_data - average) / standard_deviation, up to the positive factors
\* len(data) and 1 / standard_deviation of each column.
Standardised(data) ==
    [r \in 1..NumRows(data) |->
        [c \in 1..NumCols(data) |-> NumRows(data) * data[r][c] - sum(Column(data, c - 1))]]

\* The buffers one call apply_pca(data) leaves behind: array(data), the
\* standardised copy that copied_data is bound to next, and the returned
\* eigenvectors.
ApplyPcaBuffers(data, eig_result) ==
    <<data, Standardised(data), apply_pca(eig_result).eigen_vectors>>

\* Mutant of ReflectTarget: the assignment on line 127 names the wrong array.
ReflectWrongTarget == "empiric_eigen_vectors"

\* The array whose rows line 127 assigns to.
ReflectTarget == "final_bootstraped_eigen_vectors"

\* apply_pca(indicators), start to end.
FrameApplyPca ==
    /\ pc = <<"idle">>
    /\ ~NotFinite(heap[1])
    /\ \E eig_result \in EigPool :
         /\ heap' = CallerBuffers(heap) \o ApplyPcaBuffers(heap[1], eig_result)
         /\ names' = [CallerNames EXCEPT !.copied_data = 4, !.returned = <<5>>]
    /\ pc' = pc
    /\ UNCHANGED <<scoreVars, independanceVars>>
    /\ UNCHANGED <<indicators, empiric_eigen_vectors, bootVars, genVars, jackVars, histVars,
                   pcaVars, error, intervalVars>>

\* generate_bootstraped_dataset(indicators), start to end: the rows appended
\* on line 30 are views of the argument and array(bootstraped) copies them.
FrameBootstrapDataset ==
    /\ pc = <<"idle">>
    /\ \E draws \in BootstrapDraws(heap[1]) :
         heap' = CallerBuffers(heap) \o <<generate_bootstraped_dataset(heap[1], draws)>>
    /\ names' = [CallerNames EXCEPT !.returned = <<3>>]
    /\ pc' = pc
    /\ UNCHANGED <<scoreVars, independanceVars>>
    /\ UNCHANGED <<indicators, empiric_eigen_vectors, bootVars, genVars, jackVars, histVars,
                   pcaVars, error, intervalVars>>

\* jacknife(indicators), start to end: one new buffer per delete.
FrameJacknife ==
    /\ pc = <<"idle">>
    /\ heap' = CallerBuffers(heap) \o jacknife(heap[1])
    /\ names' = [CallerNames EXCEPT !.returned = [i \in 1..Len(heap[1]) |-> 2 + i]]
    /\ pc' = pc
    /\ UNCHANGED <<scoreVars, independanceVars>>
    /\ UNCHANGED <<indicators, empiric_eigen_vectors, bootVars, genVars, jackVars, histVars,
                   pcaVars, error, intervalVars>>

\* Entry of bootstrap_and_apply_pca(indicators, empiric_eigen_vectors).
FrameCallBootstrap ==
    /\ pc = <<"idle">>
    /\ pc' = <<"frame_loop">>
    /\ heap' = CallerBuffers(heap)
    /\ names' = CallerNames
    /\ can_reorder' = FALSE
    /\ final_correlation_indexes' = None
    /\ final_correlation_matrix' = None
    /\ UNCHANGED <<scoreVars, independanceVars>>
    /\ UNCHANGED <<indicators, empiric_eigen_vectors, bootstrap_sample,
                   bootstraped_eigen_vectors, correlation, max_correlation,
                   final_bootstraped_eigen_vectors, final_bootstrap_sample, result,
                   genVars, jackVars, histVars, pcaVars, error, intervalVars>>

\* One pass of the while loop (lines 105-119): the sample and the buffers of
\* apply_pca are new; on acceptance the final_* names are bound to them.  The
\* buffers of a rejected pass have no name left and are gone.
FrameBootstrapDraw ==
    /\ pc = <<"frame_loop">>
    /\ ~can_reorder
    /\ \E eig_result \in EigPool :
       \E vectors \in {apply_pca(eig_result).eigen_vectors} :
       \E corr \in {correlation_matrix_between_pcas(heap[names.empiric_eigen_vectors], vectors)} :
       \E indexes \in {ArgmaxAxis0(corr)} :
       \E can \in {CanReorder(vectors, indexes)} :
       \E draws \in BootstrapDraws(heap[names.indicators]) :
       \E sample \in {generate_bootstraped_dataset(heap[names.indicators], draws)} :
       \E kept \in {CallerBuffers(heap)} :
       \E at \in {Len(kept)} :
         IF NotFinite(sample)
         THEN /\ pc' = <<"raised">>
              /\ error' = "LinAlgError"
              /\ heap' = Append(kept, sample)
              /\ names' = [names EXCEPT !.bootstrap_sample = at + 1]
              /\ UNCHANGED <<can_reorder, final_correlation_indexes, final_correlation_matrix>>
         ELSE /\ heap' = Append(kept, sample) \o ApplyPcaBuffers(sample, eig_result)
              /\ names' =
                    [names EXCEPT
                        !.bootstrap_sample = at + 1,
                        !.copied_data = at + 3,
                        !.bootstraped_eigen_vectors = at + 4,
                        !.final_bootstraped_eigen_vectors =
                            KeepAccepted(can, at + 4, names.final_bootstraped_eigen_vectors),
                        !.final_bootstrap_sample =
                            KeepAccepted(can, at + 1, names.final_bootstrap_sample)]
              /\ can_reorder' = can
              /\ final_correlation_indexes' =
                     KeepAccepted(can, indexes, final_correlation_indexes)
              /\ final_correlation_matrix' =
                     KeepAccepted(can, corr, final_correlation_matrix)
              /\ pc' = pc
              /\ error' = error
    /\ UNCHANGED <<scoreVars, independanceVars>>
    /\ UNCHANGED <<indicators, empiric_eigen_vectors, bootstrap_sample,
                   bootstraped_eigen_vectors, correlation, max_correlation,
                   final_bootstraped_eigen_vectors, final_bootstrap_sample, result,
                   genVars, jackVars, histVars, pcaVars, intervalVars>>

\* Lines 121-123: indexing by final_correlation_indexes gives new arrays, and
\* the two names are bound to them.
FrameReorder ==
    /\ pc = <<"frame_loop">>
    /\ can_reorder
    /\ heap' = Append(heap, TakeColumns(heap[names.final_bootstraped_eigen_vectors],
                                        final_correlation_indexes))
    /\ names' = [names EXCEPT !.final_bootstraped_eigen_vectors = Len(heap) + 1]
    /\ final_correlation_matrix' = TakeColumns(final_correlation_matrix, final_correlation_indexes)
    /\ pc' = <<"frame_reflect">>
    /\ UNCHANGED <<scoreVars, independanceVars>>
    /\ UNCHANGED <<indicators, empiric_eigen_vectors, can_reorder, bootstrap_sample,
                   bootstraped_eigen_vectors, correlation, max_correlation,
                   final_bootstraped_eigen_vectors, final_correlation_indexes,
                   final_bootstrap_sample, result,
                   genVars, jackVars, histVars, pcaVars, error, intervalVars>>

\* Lines 125-129: the rows are negated in place, in the buffer the assigned
\* name refers to, and the two final_* arrays are returned.
FrameReflectReturn ==
    /\ pc = <<"frame_reflect">>
    /\ \E written \in {names[ReflectTarget]} :
         heap' = [heap EXCEPT ![written] =
                     ReflectFrom(heap[written], final_correlation_matrix,
                                 [k \in 1..NumCols(heap[names.final_bootstraped_eigen_vectors])
                                     |-> k - 1],
                                 0)]
    /\ names' = [names EXCEPT !.returned = <<names.final_bootstrap_sample,
                                             names.final_bootstraped_eigen_vectors>>]
    /\ pc' = <<"idle">>
    /\ UNCHANGED <<scoreVars, independanceVars>>
    /\ UNCHANGED <<indicators, empiric_eigen_vectors, bootVars, genVars, jackVars, histVars,
                   pcaVars, error, intervalVars>>

\* The caller holds a three-row observation matrix and the empirical
\* eigenvectors and calls the four functions in any order.
InitFrame ==
    /\ pc = <<"idle">>
    /\ indicators = << <<1, 2, 3>>, <<2, 3, 1>>, <<3, 1, 2>> >>
    /\ empiric_eigen_vectors \in EmpiricInputs
    /\ BlankLocals
    /\ heap = <<indicators, empiric_eigen_vectors>>
    /\ names = CallerNames

NextFrame ==
    \/ FrameApplyPca
    \/ FrameBootstrapDataset
    \/ FrameJacknife
    \/ FrameCallBootstrap
    \/ FrameBootstrapDraw
    \/ FrameReorder
    \/ FrameReflectReturn

SpecFrame == InitFrame /\ [][NextFrame]_vars

\* C15: whatever has been called so far, the caller's observation matrix and
\* empirical eigenvectors hold the values they were passed with.
C15_CallerArraysUntouched ==
    /\ heap[1] = indicators
    /\ heap[2] = empiric_eigen_vectors

\* C15 witness: bootstrap_and_apply_pca has returned an array in which it
\* negated a row in place.
C15_Witness ==
    /\ pc = <<"idle">>
    /\ Len(names.returned) = 2
    /\ heap[names.returned[2]] #
           TakeColumns(heap[names.bootstraped_eigen_vectors], final_correlation_indexes)

----------------------------------------------------------------------------
(* src/confidence.py: produce_confidence_intervals                          *)
(*                                                                          *)
(* A float is a record: finite with its value in thousandths, infinite with *)
(* its sign, or NaN.  A probability is a finite float in twentieths.  The   *)
(* normal distribution of scipy is not code of the repository: icdf and     *)
(* ppf are its values at the probabilities used, and cdf is rounded down to *)
(* a twentieth, which floor(p * B) cannot tell from p when B divides 20.    *)

Finite(v) == [kind |-> "finite", value |-> v]

Infinite(s) == [kind |-> "inf", value |-> s]

NaN == [kind |-> "nan", value |-> 0]

\* icdf(k / 20) for k = 1..19, in thousandths
NormalQuantiles ==
    <<-1645, -1282, -1036, -842, -674, -524, -385, -253, -126, 0,
      126, 253, 385, 524, 674, 842, 1036, 1282, 1645>>

\* standard_normal_distribution.icdf(count / size)
icdf(count, size) ==
    IF count = 0 THEN Infinite(-1)
    ELSE IF count = size THEN Infinite(1)
    ELSE Finite(NormalQuantiles[(count * 20) \div size])

\* standard_normal_distribution.cdf(x), in twentieths; it is 1.0 from 8.3 on.
cdf(x) ==
    IF x.kind = "nan" THEN NaN
    ELSE IF x.kind = "inf" THEN Finite(IF x.value > 0 THEN 20 ELSE 0)
    ELSE IF x.value >= 8300 THEN Finite(20)
    ELSE Finite(Cardinality({k \in 1..19 : x.value >= NormalQuantiles[k]}))

\* norm.ppf(significant_level / 2) and norm.ppf(1 - significant_level / 2)
norm_ppf(level) ==
    IF level = "0.05" THEN [lower |-> -1960, upper |-> 1960]
    ELSE IF level = "0.01" THEN [lower |-> -2576, upper |-> 2576]
    ELSE IF level = "0.2" THEN [lower |-> -1282, upper |-> 1282]
    ELSE [lower |-> -5000, upper |-> 5000]

SignificantLevels == {"0.2", "0.05", "0.01", "5.733e-07"}

\* power(v, 3/2) for an integer v, rounded down
power_three_halves(v) == CHOOSE r \in 0..46340 : r * r <= v * v * v /\ v * v * v < (r + 1) * (r + 1)

\* bootstraped_pcas[:, i, j]
CellValues(ensemble, i, j) == [k \in 1..Len(ensemble) |-> ensemble[k][i + 1][j + 1]]

\* Mutant of NumberBelow: members equal to the empirical value count too.
NumberBelowOrEqual(ensemble, empiric, i, j) ==
    Cardinality({k \in 1..Len(ensemble) : ensemble[k][i + 1][j + 1] <= empiric[i + 1][j + 1]})

\* number_below_empiric[i, j] (lines 215-220)
NumberBelow(ensemble, empiric, i, j) ==
    Cardinality({k \in 1..Len(ensemble) : ensemble[k][i + 1][j + 1] < empiric[i + 1][j + 1]})

\* The largest number that divides every entry, 1 when all are zero.
CommonScale(values) ==
    LET divisors == {d \in 1..(1 + sum([k \in 1..Len(values) |->
                                            IF values[k] < 0 THEN -values[k] ELSE values[k]])) :
                        \A k \in 1..Len(values) : values[k] % d = 0}
    IN  IF \A k \in 1..Len(values) : values[k] = 0 THEN 1
        ELSE CHOOSE d \in divisors : \A e \in divisors : e <= d

\* jacknifed_pcas - jacknifed_means for one cell, times the number of values
Deviations(values, total) ==
    [k \in 1..Len(values) |-> Len(values) * values[k] - total] \o <<>>

Rescaled(values, unit) == [k \in 1..Len(values) |-> values[k] \div unit] \o <<>>

\* sum(power(d, 3)) / (6 * power(sum(power(d, 2)), 3/2)), in thousandths
SkewnessOf(deviation) ==
    LET squares == sum([k \in 1..Len(deviation) |-> deviation[k] * deviation[k]])
        cubes == sum([k \in 1..Len(deviation) |-> deviation[k] * deviation[k] * deviation[k]])
    IN  IF squares = 0 THEN NaN
        ELSE Finite((1000 * cubes) \div (6 * power_three_halves(squares)))

\* distribution_skewness[i, j] (lines 224-226), in thousandths and rounded
\* down.  The quotient does not depend on the unit of the deviations, which
\* are taken in the largest unit that keeps them whole; a cell whose
\* jackknife values are all equal gives 0/0.
Skewness(ensemble, i, j) ==
    CHOOSE a \in
        { SkewnessOf(deviation) : deviation \in
            { Rescaled(scaled, CommonScale(scaled)) : scaled \in
                { Deviations(values, sum(values)) : values \in
                    { CellValues(ensemble, i, j) \o <<>> } } } } : TRUE

\* bias + (bias + critical) / (1 - skewness * (bias + critical)), as floats:
\* an infinite bias gives inf / inf or 0 * inf, and a zero divisor gives an
\* infinity of the sign of the dividend.
AdjustedQuantile(bias, skewness, critical) ==
    IF skewness.kind = "nan" \/ bias.kind = "nan" \/ bias.kind = "inf" THEN NaN
    ELSE LET shifted == bias.value + critical
             divisor == 1000 - ((skewness.value * shifted) \div 1000)
         IN  IF divisor = 0
             THEN IF shifted = 0 THEN NaN ELSE Infinite(sign(shifted))
             ELSE Finite(bias.value + ((shifted * 1000) \div divisor))

\* What astype(int) makes of NaN: the smallest integer on most builds, 0 on
\* others.
INT_MIN == -2147483647

IntOfNaN == {INT_MIN, 0}

\* floor(location * len(bootstraped_pcas)).astype(int)
floor_index(location, size, nan_as_int) ==
    IF location.kind = "nan" THEN nan_as_int
    ELSE (location.value * size) \div 20

\* Mutant of sort: the values in the order of the members.
sort_nothing(values) == values

\* Mutant of sort: descending order.
sort_descending(values) ==
    LET n == Len(values)
        Rank(i) == Cardinality({j \in 1..n : \/ values[j] > values[i]
                                             \/ (values[j] = values[i] /\ j < i)}) + 1
    IN  [k \in 1..n |-> values[CHOOSE i \in 1..n : Rank(i) = k]]

\* numpy.sort(values)
sort(values) ==
    LET n == Len(values)
        Rank(i) == Cardinality({j \in 1..n : \/ values[j] < values[i]
                                             \/ (values[j] = values[i] /\ j < i)}) + 1
    IN  [k \in 1..n |-> values[CHOOSE i \in 1..n : Rank(i) = k]]

\* x[index] raises IndexError outside -len(x) .. len(x) - 1
IndexError(values, index) == index >= Len(values) \/ index < -Len(values)

\* x[index]: a negative index counts from the end
Subscript(values, index) ==
    IF index >= 0 THEN values[index + 1] ELSE values[Len(values) + index + 1]

\* confidence_intervals_from_indexes raises on one of its cells
IntervalsRaise(indexes, ensemble) ==
    \E i \in 0..(NumRows(indexes) - 1) : \E j \in 0..(NumCols(indexes) - 1) :
        IndexError(sort(CellValues(ensemble, i, j)), indexes[i + 1][j + 1])

confidence_intervals_from_indexes(indexes, ensemble) ==
    [r \in 1..NumRows(indexes) |->
        [c \in 1..NumCols(indexes) |->
            Subscript(sort(CellValues(ensemble, r - 1, c - 1)), indexes[r][c])]]

\* Bootstrap ensembles of 4 and of 20 two-by-two matrices.
BootstrapEnsembles ==
    { [k \in 1..4 |-> << <<k, 5 - k>>, <<k % 2, ((3 * k) % 4) + 1>> >>],
      [k \in 1..20 |-> << <<k, 21 - k>>, <<(7 * k) % 20, k % 5>> >>] }

\* Jackknife ensembles: three matrices; three matrices with a cell that does
\* not vary; twenty matrices with a cell where one value stands out.
JacknifeEnsembles ==
    { << << <<1, 2>>, <<0, 5>> >>, << <<2, 2>>, <<1, 4>> >>, << <<3, 5>>, <<2, 6>> >> >>,
      << << <<1, 2>>, <<0, 5>> >>, << <<2, 2>>, <<1, 5>> >>, << <<3, 5>>, <<2, 5>> >> >>,
      [k \in 1..20 |-> << <<IF k = 1 THEN 1 ELSE 0, k % 2>>,
                          <<(k + 1) % 2, k % 2>> >>] }

EmpiricEigenVectors ==
    { << <<20, 10>>, <<1, 3>> >>,
      << <<3, 2>>, <<1, 3>> >>,
      << <<2, 4>>, <<1, 2>> >> }

\* produce_confidence_intervals is called; lines 212-226: the bias corrector
\* and the skewness of every cell.
CallProduce ==
    /\ pc = <<"idle">>
    /\ \E ensemble \in BootstrapEnsembles :
       \E empiric \in EmpiricEigenVectors :
       \E jacknifed \in JacknifeEnsembles :
         /\ bootstraped_pcas' = ensemble
         /\ empiric_eigen_vectors' = empiric
         /\ jacknifed_pcas' = jacknifed
         /\ number_below_empiric' =
                [r \in 1..NumRows(empiric) |-> [c \in 1..NumCols(empiric) |->
                    NumberBelow(ensemble, empiric, r - 1, c - 1)]]
         /\ bias_corrector' =
                [r \in 1..NumRows(empiric) |-> [c \in 1..NumCols(empiric) |->
                    icdf(NumberBelow(ensemble, empiric, r - 1, c - 1), Len(ensemble))]]
         /\ distribution_skewness' =
                [r \in 1..NumRows(empiric) |-> [c \in 1..NumCols(empiric) |->
                    Skewness(jacknifed, r - 1, c - 1)]]
    /\ significant_level' \in SignificantLevels
    /\ pc' = <<"ci_locations">>
    /\ UNCHANGED <<scoreVars, independanceVars>>
    /\ UNCHANGED <<indicators, bootVars, sample_number, bootstraped_data, jackVars, histVars,
                   pcaVars, error, frameVars, lower_confidence_location,
                   upper_confidence_location, lower_confidence_index, upper_confidence_index,
                   lower_confidence_intervals, upper_confidence_intervals>>

\* Lines 228-251: the two adjusted locations of every cell.
ProduceLocations ==
    /\ pc = <<"ci_locations">>
    /\ lower_confidence_location' =
           [r \in 1..NumRows(bias_corrector) |-> [c \in 1..NumCols(bias_corrector) |->
               cdf(AdjustedQuantile(bias_corrector[r][c], distribution_skewness[r][c],
                                    norm_ppf(significant_level).lower))]]
    /\ upper_confidence_location' =
           [r \in 1..NumRows(bias_corrector) |-> [c \in 1..NumCols(bias_corrector) |->
               cdf(AdjustedQuantile(bias_corrector[r][c], distribution_skewness[r][c],
                                    norm_ppf(significant_level).upper))]]
    /\ pc' = <<"ci_indexes">>
    /\ UNCHANGED <<scoreVars, independanceVars>>
    /\ UNCHANGED <<indicators, empiric_eigen_vectors, bootVars, genVars, jackVars, histVars,
                   pcaVars, error, frameVars, jacknifed_pcas, significant_level,
                   number_below_empiric, bias_corrector, distribution_skewness,
                   lower_confidence_index, upper_confidence_index,
                   lower_confidence_intervals, upper_confidence_intervals>>

\* Lines 252-253: the rank indexes.
ProduceIndexes ==
    /\ pc = <<"ci_indexes">>
    /\ \E nan_as_int \in IntOfNaN :
         /\ lower_confidence_index' =
                [r \in 1..NumRows(bias_corrector) |-> [c \in 1..NumCols(bias_corrector) |->
                    floor_index(lower_confidence_location[r][c], Len(bootstraped_pcas),
                                nan_as_int)]]
         /\ upper_confidence_index' =
                [r \in 1..NumRows(bias_corrector) |-> [c \in 1..NumCols(bias_corrector) |->
                    floor_index(upper_confidence_location[r][c], Len(bootstraped_pcas),
                                nan_as_int)]]
    /\ pc' = <<"ci_lower">>
    /\ UNCHANGED <<scoreVars, independanceVars>>
    /\ UNCHANGED <<indicators, empiric_eigen_vectors, bootVars, genVars, jackVars, histVars,
                   pcaVars, error, frameVars, jacknifed_pcas, significant_level,
                   number_below_empiric, bias_corrector, distribution_skewness,
                   lower_confidence_location, upper_confidence_location,
                   lower_confidence_intervals, upper_confidence_intervals>>

\* Lines 254-257: the lower bounds, or the IndexError of a subscript.
ProduceLower ==
    /\ pc = <<"ci_lower">>
    /\ IF IntervalsRaise(lower_confidence_index, bootstraped_pcas)
       THEN /\ pc' = <<"raised">>
            /\ error' = "IndexError"
            /\ lower_confidence_intervals' = lower_confidence_intervals
       ELSE /\ lower_confidence_intervals' =
                   confidence_intervals_from_indexes(lower_confidence_index, bootstraped_pcas)
            /\ pc' = <<"ci_upper">>
            /\ error' = error
    /\ UNCHANGED <<scoreVars, independanceVars>>
    /\ UNCHANGED <<indicators, empiric_eigen_vectors, bootVars, genVars, jackVars, histVars,
                   pcaVars, frameVars, jacknifed_pcas, significant_level,
                   number_below_empiric, bias_corrector, distribution_skewness,
                   lower_confidence_location, upper_confidence_location,
                   lower_confidence_index, upper_confidence_index,
                   upper_confidence_intervals>>

\* Lines 258-263: the upper bounds, or the IndexError of a subscript; return.
ProduceUpper ==
    /\ pc = <<"ci_upper">>
    /\ IF IntervalsRaise(upper_confidence_index, bootstraped_pcas)
       THEN /\ pc' = <<"raised">>
            /\ error' = "IndexError"
            /\ upper_confidence_intervals' = upper_confidence_intervals
       ELSE /\ upper_confidence_intervals' =
                   confidence_intervals_from_indexes(upper_confidence_index, bootstraped_pcas)
            /\ pc' = <<"ci_returned">>
            /\ error' = error
    /\ UNCHANGED <<scoreVars, independanceVars>>
    /\ UNCHANGED <<indicators, empiric_eigen_vectors, bootVars, genVars, jackVars, histVars,
                   pcaVars, frameVars, jacknifed_pcas, significant_level,
                   number_below_empiric, bias_corrector, distribution_skewness,
                   lower_confidence_location, upper_confidence_location,
                   lower_confidence_index, upper_confidence_index,
                   lower_confidence_intervals>>

InitIntervals ==
    /\ pc = <<"idle">>
    /\ indicators = None
    /\ empiric_eigen_vectors = None
    /\ BlankLocals
    /\ NoArrays

NextIntervals ==
    \/ CallProduce
    \/ ProduceLocations
    \/ ProduceIndexes
    \/ ProduceLower
    \/ ProduceUpper

SpecIntervals == InitIntervals /\ [][NextIntervals]_vars

\* The cells of a matrix, as pairs of zero-based indexes.
Cells(matrix) == (0..(NumRows(matrix) - 1)) \X (0..(NumCols(matrix) - 1))

\* index is the rank floor(p * B) of the probability p (in twentieths).
RankOf(p, index) ==
    /\ p.kind = "finite"
    /\ index * 20 <= p.value * Len(bootstraped_pcas)
    /\ p.value * Len(bootstraped_pcas) < (index + 1) * 20

\* bound is the value of rank index among the bootstrap values of the cell:
\* at most index of them are smaller, and more than index are not larger.
ValueOfRank(cell, index, bound) ==
    LET values == CellValues(bootstraped_pcas, cell[1], cell[2])
    IN  /\ Cardinality({k \in 1..Len(values) : values[k] < bound}) <= index
        /\ index < Cardinality({k \in 1..Len(values) : values[k] <= bound})
        /\ \E k \in 1..Len(values) : values[k] = bound

LowerDone == pc[1] \in {"ci_upper", "ci_returned"}

UpperDone == pc[1] = "ci_returned"

\* C18: every rank index is floor(p * B) of its tail probability, and every
\* returned bound of a cell is the element of that rank in the ascending
\* sort of the B bootstrap values of the cell.
C18_RankAndSortedLookup ==
    /\ pc[1] \in {"ci_lower", "ci_upper", "ci_returned"} =>
         \A cell \in Cells(bias_corrector) :
            /\ lower_confidence_location[cell[1] + 1][cell[2] + 1].kind = "finite" =>
                 RankOf(lower_confidence_location[cell[1] + 1][cell[2] + 1],
                        lower_confidence_index[cell[1] + 1][cell[2] + 1])
            /\ upper_confidence_location[cell[1] + 1][cell[2] + 1].kind = "finite" =>
                 RankOf(upper_confidence_location[cell[1] + 1][cell[2] + 1],
                        upper_confidence_index[cell[1] + 1][cell[2] + 1])
    /\ LowerDone =>
         \A cell \in Cells(bias_corrector) :
            ValueOfRank(cell, lower_confidence_index[cell[1] + 1][cell[2] + 1],
                        lower_confidence_intervals[cell[1] + 1][cell[2] + 1])
    /\ UpperDone =>
         \A cell \in Cells(bias_corrector) :
            ValueOfRank(cell, upper_confidence_index[cell[1] + 1][cell[2] + 1],
                        upper_confidence_intervals[cell[1] + 1][cell[2] + 1])

\* Both matrices are returned for twenty bootstrap values per cell, and in
\* some cell the upper rank is neither the first nor the last and the value
\* at that position before sorting is another one.
C18_Witness ==
    /\ UpperDone
    /\ Len(bootstraped_pcas) = 20
    /\ \E cell \in Cells(bias_corrector) :
         LET index == upper_confidence_index[cell[1] + 1][cell[2] + 1]
         IN  /\ index \in 1..18
             /\ upper_confidence_location[cell[1] + 1][cell[2] + 1].kind = "finite"
             /\ CellValues(bootstraped_pcas, cell[1], cell[2])[index + 1]
                    # upper_confidence_intervals[cell[1] + 1][cell[2] + 1]

\* The nearest index of 0 .. size - 1.
Clamped(index, size) == IF index < 0 THEN 0 ELSE IF index >= size THEN size - 1 ELSE index

OutOfRange(index) == index < 0 \/ index >= Len(bootstraped_pcas)

\* C19: a rank index outside [0, B) is clamped to the nearest valid index:
\* once the lower (upper) bounds have been looked up, nothing was raised and
\* the bound of a cell whose index is out of range is the first or the last
\* of the sorted bootstrap values.
C19_OutOfRangeIndexClamped ==
    /\ pc[1] \in {"ci_upper", "ci_returned", "raised"} =>
         \A cell \in Cells(bias_corrector) :
            OutOfRange(lower_confidence_index[cell[1] + 1][cell[2] + 1])
            => /\ pc[1] # "raised"
               /\ lower_confidence_intervals[cell[1] + 1][cell[2] + 1] =
                     sort(CellValues(bootstraped_pcas, cell[1], cell[2]))
                         [Clamped(lower_confidence_index[cell[1] + 1][cell[2] + 1],
                                  Len(bootstraped_pcas)) + 1]
    /\ ( /\ pc[1] \in {"ci_returned", "raised"}
         /\ ~ IntervalsRaise(lower_confidence_index, bootstraped_pcas) ) =>
         \A cell \in Cells(bias_corrector) :
            OutOfRange(upper_confidence_index[cell[1] + 1][cell[2] + 1])
            => /\ pc[1] # "raised"
               /\ upper_confidence_intervals[cell[1] + 1][cell[2] + 1] =
                     sort(CellValues(bootstraped_pcas, cell[1], cell[2]))
                         [Clamped(upper_confidence_index[cell[1] + 1][cell[2] + 1],
                                  Len(bootstraped_pcas)) + 1]

\* C20: in what produce_confidence_intervals returns, every lower bound is
\* at most the upper bound of the same cell, and every lower rank index is
\* at most the upper rank index.
C20_LowerAtMostUpper ==
    UpperDone =>
        \A cell \in Cells(bias_corrector) :
            /\ lower_confidence_intervals[cell[1] + 1][cell[2] + 1]
                   <= upper_confidence_intervals[cell[1] + 1][cell[2] + 1]
            /\ lower_confidence_index[cell[1] + 1][cell[2] + 1]
                   <= upper_confidence_index[cell[1] + 1][cell[2] + 1]

\* The significance levels in increasing order.
LevelOrder == <<"5.733e-07", "0.01", "0.05", "0.2">>

LevelLess(alpha1, alpha2) ==
    \E m, n \in 1..Len(LevelOrder) :
        m < n /\ LevelOrder[m] = alpha1 /\ LevelOrder[n] = alpha2

\* The rank indexes of lines 228-253 at another significance level, for the
\* bias corrector and the skewness of the state.
IndexesAt(level, nan_as_int) ==
    [tail \in {"lower", "upper"} |->
        [r \in 1..NumRows(bias_corrector) |-> [c \in 1..NumCols(bias_corrector) |->
            floor_index(cdf(AdjustedQuantile(bias_corrector[r][c],
                                             distribution_skewness[r][c],
                                             norm_ppf(level)[tail])),
                        Len(bootstraped_pcas), nan_as_int)]]]

ReturnsAt(level, nan_as_int) ==
    /\ ~ IntervalsRaise(IndexesAt(level, nan_as_int).lower, bootstraped_pcas)
    /\ ~ IntervalsRaise(IndexesAt(level, nan_as_int).upper, bootstraped_pcas)

\* C21: when produce_confidence_intervals returns at a level alpha1 and, for
\* the same ensembles and empirical eigenvectors, at a level alpha2 > alpha1,
\* the distance between the upper and the lower rank of every cell at alpha2
\* is at most the distance at alpha1.
C21_LargerLevelNotWider ==
    UpperDone =>
        \A level \in SignificantLevels : \A nan_as_int \in IntOfNaN :
            (LevelLess(significant_level, level) /\ ReturnsAt(level, nan_as_int)) =>
                \A cell \in Cells(bias_corrector) :
                    IndexesAt(level, nan_as_int).upper[cell[1] + 1][cell[2] + 1]
                        - IndexesAt(level, nan_as_int).lower[cell[1] + 1][cell[2] + 1]
                    <= upper_confidence_index[cell[1] + 1][cell[2] + 1]
                        - lower_confidence_index[cell[1] + 1][cell[2] + 1]

\* produce_confidence_intervals as a function of its arguments (lines
\* 212-263): what it returns, or that it raised.
produce_confidence_intervals(ensemble, jacknifed, empiric, level, nan_as_int) ==
    LET rows == 1..NumRows(empiric)
        cols == 1..NumCols(empiric)
        bias == [r \in rows |-> [c \in cols |->
                    icdf(NumberBelow(ensemble, empiric, r - 1, c - 1), Len(ensemble))]]
        skewness == [r \in rows |-> [c \in cols |-> Skewness(jacknifed, r - 1, c - 1)]]
        index == [tail \in {"lower", "upper"} |->
                    [r \in rows |-> [c \in cols |->
                        floor_index(cdf(AdjustedQuantile(bias[r][c], skewness[r][c],
                                                         norm_ppf(level)[tail])),
                                    Len(ensemble), nan_as_int)]]]
    IN  IF IntervalsRaise(index.lower, ensemble) \/ IntervalsRaise(index.upper, ensemble)
        THEN [raised |-> TRUE, lower |-> <<>>, upper |-> <<>>]
        ELSE [raised |-> FALSE,
              lower |-> confidence_intervals_from_indexes(index.lower, ensemble),
              upper |-> confidence_intervals_from_indexes(index.upper, ensemble)]

FewReorderings == 4

\* Reorderings of n members: all of them up to FewReorderings members, and
\* beyond that the reversal, two rotations and the swap of the first two.
Reorderings(n) ==
    IF n <= FewReorderings THEN Permutations(1..n)
    ELSE { [k \in 1..n |-> n + 1 - k],
           [k \in 1..n |-> (k % n) + 1],
           [k \in 1..n |-> ((k + 6) % n) + 1],
           [k \in 1..n |-> IF k = 1 THEN 2 ELSE IF k = 2 THEN 1 ELSE k] }

Reordered(ensemble, order) == [k \in 1..Len(ensemble) |-> ensemble[order[k]]]

\* C22: for every reordering of the bootstrap members and of the jackknife
\* members, produce_confidence_intervals gives what it gave for the ensembles
\* in their order: the same two bound matrices, or an IndexError as before.
C22_OrderOfMembersIrrelevant ==
    (UpperDone \/ (pc[1] = "raised" /\ error = "IndexError")) =>
        \A order \in Reorderings(Len(bootstraped_pcas)) :
        \A jack_order \in Reorderings(Len(jacknifed_pcas)) :
        \E nan_as_int \in IntOfNaN :
        \E again \in { produce_confidence_intervals(
                           Reordered(bootstraped_pcas, order),
                           Reordered(jacknifed_pcas, jack_order),
                           empiric_eigen_vectors, significant_level, nan_as_int) } :
                IF UpperDone
                THEN /\ ~ again.raised
                     /\ again.lower = lower_confidence_intervals
                     /\ again.upper = upper_confidence_intervals
                ELSE again.raised

\* Both matrices are returned for ensembles whose members, taken in their
\* order, are not sorted in some cell, and whose bounds differ in some cell.
C22_Witness ==
    /\ UpperDone
    /\ Len(bootstraped_pcas) = 20
    /\ Len(jacknifed_pcas) = 20
    /\ lower_confidence_intervals # upper_confidence_intervals
    /\ \E cell \in Cells(bias_corrector) :
         CellValues(bootstraped_pcas, cell[1], cell[2])
             # sort(CellValues(bootstraped_pcas, cell[1], cell[2]))

----------------------------------------------------------------------------
(* src/stats.py: apply_pca called a second time on the same data *)

\* What eig can return for the same correlation matrix: the same
\* eigenvalues in the same order, and every eigenvector as before or negated.
SignVariants(eigen) ==
    { [eigen_values |-> eigen.eigen_values,
       eigen_vectors |->
           [r \in 1..NumRows(eigen.eigen_vectors) |->
               [c \in 1..NumCols(eigen.eigen_vectors) |->
                   eigen.eigen_vectors[r][c] * s[c]]]] :
      s \in [1..NumCols(eigen.eigen_vectors) -> {-1, 1}] }

\* apply_pca(indicators) again, up to the eigensolver (lines 61-72); the
\* data are those of the first call, which left them unchanged.
CallApplyPcaAgain ==
    /\ pc = <<"apply_pca_returned">>
    /\ eig_again' \in SignVariants(eig_returned)
    /\ pc' = <<"apply_pca_again_eig">>
    /\ UNCHANGED <<scoreVars, independanceVars>>
    /\ UNCHANGED <<indicators, empiric_eigen_vectors, bootVars, genVars, jackVars, histVars,
                   eig_returned, pca, pca_again, error, frameVars, intervalVars>>

\* The rest of the second call (lines 75-93).
ApplyPcaAgainReturn ==
    /\ pc = <<"apply_pca_again_eig">>
    /\ pca_again' = apply_pca(eig_again)
    /\ pc' = <<"apply_pca_again_returned">>
    /\ UNCHANGED <<scoreVars, independanceVars>>
    /\ UNCHANGED <<indicators, empiric_eigen_vectors, bootVars, genVars, jackVars, histVars,
                   eig_returned, pca, eig_again, error, frameVars, intervalVars>>

NextRerun == CallApplyPca \/ ApplyPcaReturn \/ CallApplyPcaAgain \/ ApplyPcaAgainReturn

SpecRerun == InitPca /\ [][NextRerun]_vars

\* C23: a second run of apply_pca on the same observation matrix returns the
\* eigenvalues, eigenvectors and explained variance of the first run,
\* whatever sign the solver gave each eigenvector in either run.
C23_SecondRunIdentical ==
    pc = <<"apply_pca_again_returned">> => pca_again = pca

\* The second run has returned after the solver gave the first eigenvector,
\* whose two largest loadings are of equal size and opposite sign, with the
\* other sign.
C23_Witness ==
    /\ pc = <<"apply_pca_again_returned">>
    /\ eig_returned.eigen_vectors[1][1] = -2
    /\ eig_returned.eigen_vectors[2][1] = 2
    /\ eig_again.eigen_vectors[1][1] = 2
    /\ eig_again.eigen_vectors[2][1] = -2

----------------------------------------------------------------------------
(* src/subjective.py: get_scores_for_indicators *)

PILLARS == <<"social", "environmental", "economic">>

\* Mutant of indicator_score_for_pillar: the score 5 only for a difference
\* of exactly two points.
indicator_score_two_points_only(indicator, pillar) ==
    LET social_score == IF pillar = "social" THEN 3 ELSE 1
        environmental_score == IF pillar = "environmental" THEN 3 ELSE 1
        economic_score == IF pillar = "economic" THEN 3 ELSE 1
        difference == abs(indicator.social - social_score)
                        + abs(indicator.environmental - environmental_score)
                        + abs(indicator.economic - economic_score)
    IN  IF difference = 0 THEN 9
        ELSE IF indicator[pillar] = 3
             THEN IF difference = 1 THEN 7 ELSE IF difference = 2 THEN 5 ELSE 1
             ELSE IF indicator[pillar] = 2 THEN 3 ELSE 1

\* One pass of the body of "for indicator in config" (lines 160-187): the
\* value of indicator_score_for_pillar at its end.
indicator_score_for_pillar(indicator, pillar) ==
    LET social_score == IF pillar = "social" THEN 3 ELSE 1
        environmental_score == IF pillar = "environmental" THEN 3 ELSE 1
        economic_score == IF pillar = "economic" THEN 3 ELSE 1
        difference_social == abs(indicator.social - social_score)
        difference_environmental == abs(indicator.environmental - environmental_score)
        difference_economic == abs(indicator.economic - economic_score)
    IN  IF /\ indicator.social = social_score
           /\ indicator.environmental = environmental_score
           /\ indicator.economic = economic_score
        THEN 9
        ELSE IF pillar = "social"
             THEN IF indicator.social = social_score
                  THEN IF difference_economic + difference_environmental = 1 THEN 7 ELSE 5
                  ELSE IF indicator.social = 2 THEN 3 ELSE 1
             ELSE IF pillar = "environmental"
             THEN IF indicator.environmental = environmental_score
                  THEN IF difference_economic + difference_social = 1 THEN 7 ELSE 5
                  ELSE IF indicator.environmental = 2 THEN 3 ELSE 1
             ELSE IF indicator.economic = economic_score
                  THEN IF difference_environmental + difference_social = 1 THEN 7 ELSE 5
                  ELSE IF indicator.economic = 2 THEN 3 ELSE 1

PillarScores == 0..3

Indicator(id, social, environmental, economic) ==
    [id |-> id, social |-> social, environmental |-> environmental, economic |-> economic]

\* The configuration of src/tests/test_subjective.py.
TestConfig ==
    << Indicator("EMA", 0, 1, 3), Indicator("PDR", 0, 3, 1), Indicator("GMR", 2, 2, 1),
       Indicator("TRP", 3, 0, 1), Indicator("NDE", 3, 1, 0), Indicator("PMS", 3, 0, 0) >>

\* Configurations: none, every single indicator with scores in 0..3, two
\* indicators, and the one of the tests.  Identifiers are distinct.
ConfigInputs ==
    { <<>>, TestConfig,
      << Indicator("EMA", 3, 1, 1), Indicator("PDR", 1, 3, 3) >> }
    \cup { << Indicator("EMA", a, b, c) >> : a \in PillarScores, b \in PillarScores,
                                             c \in PillarScores }

\* get_scores_for_indicators(config) is called (line 151).
CallScores ==
    /\ pc = <<"idle">>
    /\ config' \in ConfigInputs
    /\ scores' = <<>>
    /\ pillar_number' = 1
    /\ indicator_number' = 1
    /\ pc' = <<"scores_loop">>
    /\ UNCHANGED <<indicators, empiric_eigen_vectors, bootVars, genVars, jackVars, histVars,
                   pcaVars, error, frameVars, intervalVars, independanceVars>>

\* One pass of "for indicator in config" (lines 158-196).
ScoreIndicator ==
    /\ pc = <<"scores_loop">>
    /\ pillar_number <= Len(PILLARS)
    /\ indicator_number <= Len(config)
    /\ LET indicator == config[indicator_number]
           pillar == PILLARS[pillar_number]
           known == [id \in DOMAIN scores \cup {indicator.id} |->
                        IF id \in DOMAIN scores THEN scores[id]
                        ELSE [social |-> 0, environmental |-> 0, economic |-> 0]]
       IN  scores' = [known EXCEPT ![indicator.id][pillar] =
                          indicator_score_for_pillar(indicator, pillar)]
    /\ indicator_number' = indicator_number + 1
    /\ UNCHANGED <<pc, config, pillar_number>>
    /\ UNCHANGED <<indicators, empiric_eigen_vectors, bootVars, genVars, jackVars, histVars,
                   pcaVars, error, frameVars, intervalVars, independanceVars>>

\* "for indicator in config" is exhausted: the next pillar (line 153).
NextPillar ==
    /\ pc = <<"scores_loop">>
    /\ pillar_number <= Len(PILLARS)
    /\ indicator_number > Len(config)
    /\ pillar_number' = pillar_number + 1
    /\ indicator_number' = 1
    /\ UNCHANGED <<pc, config, scores>>
    /\ UNCHANGED <<indicators, empiric_eigen_vectors, bootVars, genVars, jackVars, histVars,
                   pcaVars, error, frameVars, intervalVars, independanceVars>>

\* "for pillar in PILLARS" is exhausted: return scores (line 198).
ScoresReturn ==
    /\ pc = <<"scores_loop">>
    /\ pillar_number > Len(PILLARS)
    /\ pc' = <<"scores_returned">>
    /\ UNCHANGED <<config, scores, pillar_number, indicator_number>>
    /\ UNCHANGED <<indicators, empiric_eigen_vectors, bootVars, genVars, jackVars, histVars,
                   pcaVars, error, frameVars, intervalVars, independanceVars>>

InitScores ==
    /\ pc = <<"idle">>
    /\ indicators = None
    /\ empiric_eigen_vectors = None
    /\ BlankLocals
    /\ NoArrays

NextScores == CallScores \/ ScoreIndicator \/ NextPillar \/ ScoresReturn

SpecScores == InitScores /\ [][NextScores]_vars

ScoresReturned == pc = <<"scores_returned">>

PillarNames == {PILLARS[k] : k \in 1..Len(PILLARS)}

\* The two pillars other than p.
OtherPillars(p) == {q \in PillarNames : q # p}

\* The points by which the scores on the two other pillars differ from 1.
OtherDifference(indicator, p) ==
    LET others == OtherPillars(p)
        first == CHOOSE q \in others : TRUE
        second == CHOOSE q \in others : q # first
    IN  abs(indicator[first] - 1) + abs(indicator[second] - 1)

PerfectMatch(indicator, p) == indicator[p] = 3 /\ OtherDifference(indicator, p) = 0

\* C24: every indicator that scores 3 on a pillar, is not the perfect match
\* and scores at most 1 on each of the two other pillars gets the score 7 on
\* that pillar.
C24_SevenWhenOthersAtMostOne ==
    ScoresReturned =>
        \A n \in 1..Len(config) : \A p \in PillarNames :
            ( /\ config[n][p] = 3
              /\ ~ PerfectMatch(config[n], p)
              /\ \A q \in OtherPillars(p) : config[n][q] <= 1 )
            => scores[config[n].id][p] = 7

----------------------------------------------------------------------------
(* src/confidence.py: the loop of bootstrap_and_apply_pca under a fair
   random source *)

\* A pass of the loop whose mapping is valid.
AcceptedDraw == BootstrapDraw /\ can_reorder'

\* bootstrap_and_apply_pca called once on the observation matrix of two
\* rows: two of its four bootstrap samples have no variance.
InitLoop ==
    /\ pc = <<"idle">>
    /\ indicators \in {d \in IndicatorInputs : Len(d) = 2}
    /\ empiric_eigen_vectors \in EmpiricInputs
    /\ BlankLocals
    /\ NoArrays

\* The random source is fair: a draw that stays possible is made, and a
\* valid draw that is possible again and again is made at some time.
SpecLoopFair ==
    InitLoop /\ [][NextAlign]_vars /\ WF_vars(NextAlign) /\ SF_vars(AcceptedDraw)

InLoop == Head(pc) = "boot_loop"

LoopLeft == Head(pc) \in {"boot_returned", "raised"}

\* C25: the loop of bootstrap_and_apply_pca has no cap and no failure
\* signal.  In the loop with no valid mapping yet another draw is always
\* possible; a colliding draw leaves the call in the loop with nothing
\* raised and nothing kept; the call returns only from a state whose latest
\* draw was valid, so it never returns while every draw collides; and with a
\* fair random source the loop is left at some time.
C25_ReturnsAtFirstValidDrawOnly ==
    /\ [](InLoop /\ ~can_reorder => ENABLED BootstrapDraw)
    /\ [][(InLoop /\ Head(pc') = "boot_loop" /\ ~can_reorder') =>
              /\ pc' = pc
              /\ error' = error
              /\ result' = result
              /\ UNCHANGED <<final_bootstraped_eigen_vectors, final_bootstrap_sample>>]_vars
    /\ [][(InLoop /\ Head(pc') = "boot_returned") =>
              /\ can_reorder
              /\ bootstrap_sample = final_bootstrap_sample
              /\ result'[1] = bootstrap_sample]_vars
    /\ (InLoop ~> LoopLeft)

\* The call has returned after a draw that was rejected.
C25_Witness ==
    /\ Head(pc) = "boot_returned"
    /\ rejected_sample # None
    /\ error = None

\* The bias corrector has been computed (lines 214-222).
BiasComputed == pc[1] \in {"ci_locations", "ci_indexes", "ci_lower", "ci_upper", "ci_returned"}

\* C26: for every cell the count is the number of members of the bootstrap
\* ensemble left when those whose value in that cell is equal to or above
\* the empirical value of the cell are taken away, and the bias corrector is
\* the probit of the count over B: minus infinity for 0, infinity for B, and
\* the quantile of count / B between.
C26_BiasFromStrictlyBelow ==
    BiasComputed =>
        \A cell \in Cells(bias_corrector) :
            LET values == CellValues(bootstraped_pcas, cell[1], cell[2])
                size == Len(bootstraped_pcas)
                empiric == empiric_eigen_vectors[cell[1] + 1][cell[2] + 1]
                count == number_below_empiric[cell[1] + 1][cell[2] + 1]
                bias == bias_corrector[cell[1] + 1][cell[2] + 1]
            IN  /\ count = size - Cardinality({k \in 1..size : values[k] = empiric})
                                - Cardinality({k \in 1..size : values[k] > empiric})
                /\ count = 0 => bias = Infinite(-1)
                /\ count = size => bias = Infinite(1)
                /\ count \in 1..(size - 1) =>
                       bias = Finite(NormalQuantiles[(20 * count) \div size])

\* The bias corrector is computed for a cell where one of twenty members
\* equals the empirical value and the nineteen others are below it.
C26_Witness ==
    /\ BiasComputed
    /\ Len(bootstraped_pcas) = 20
    /\ \E cell \in Cells(bias_corrector) :
         /\ \E k \in 1..20 :
               CellValues(bootstraped_pcas, cell[1], cell[2])[k]
                   = empiric_eigen_vectors[cell[1] + 1][cell[2] + 1]
         /\ number_below_empiric[cell[1] + 1][cell[2] + 1] = 19
         /\ bias_corrector[cell[1] + 1][cell[2] + 1] = Finite(1645)

----------------------------------------------------------------------------
(* src/stats.py: the explained variance and the order of ties *)

\* C27: the explained variance of the k-th returned component is the k-th
\* largest magnitude among the solver's eigenvalues over the sum of the
\* solver's eigenvalues with their signs: the positive ones minus the
\* magnitudes of the negative ones.
C27_SignedTotalInDenominator ==
    PcaReturned =>
        LET values == eig_returned.eigen_values
            positive == sum([k \in 1..Len(values) |-> IF values[k] > 0 THEN values[k] ELSE 0])
            negative == sum([k \in 1..Len(values) |-> IF values[k] < 0 THEN -values[k] ELSE 0])
        IN  \A k \in 1..Len(values) :
                /\ pca.explained_variance[k].num = abs(values[KthPair(values, k)])
                /\ pca.explained_variance[k].den = positive - negative

\* apply_pca has returned for eigenvalues of which the first and the last
\* are negative, so the signed total is below the total of the magnitudes.
C27_Witness ==
    /\ PcaReturned
    /\ eig_returned.eigen_values = <<-1, 3000002, -1>>
    /\ pca.explained_variance[1].den = 3000000

\* C28: of two pairs of the solver whose eigenvalues have the same
\* magnitude, the one the solver produced first is returned first: the
\* returned columns hold the two eigenvectors, signs adjusted, at two
\* positions in the solver's order, with that magnitude as eigenvalue.
C28_TiesKeepSolverOrder ==
    PcaReturned =>
        LET values == eig_returned.eigen_values
        IN  \A i, j \in 1..Len(values) :
                (i < j /\ abs(values[i]) = abs(values[j])) =>
                    \E ki, kj \in 1..Len(values) :
                        /\ ki < kj
                        /\ pca.eigen_values[ki] = abs(values[i])
                        /\ pca.eigen_values[kj] = abs(values[j])
                        /\ Column(pca.eigen_vectors, ki - 1) =
                               Canonical(Column(eig_returned.eigen_vectors, i - 1))
                        /\ Column(pca.eigen_vectors, kj - 1) =
                               Canonical(Column(eig_returned.eigen_vectors, j - 1))

\* apply_pca has returned for eigenvalues of which the first and the last
\* have the same magnitude and opposite signs, with different eigenvectors.
C28_Witness ==
    /\ PcaReturned
    /\ eig_returned.eigen_values = <<1, 3000000, -1>>
    /\ Column(pca.eigen_vectors, 1) # Column(pca.eigen_vectors, 2)

----------------------------------------------------------------------------
(* src/independance.py: apply_pca_on_indicators *)

\* Mutant of apply_pca_on_indicators: the eigenvalues are paired and sorted
\* with their signs.
apply_pca_on_indicators_signed(eigen) ==
    LET adjusted == Transpose(AdjustSigns(eigen.eigen_vectors))
        eigen_pairs == [i \in 1..Len(eigen.eigen_values) |->
                           [value |-> eigen.eigen_values[i], vector |-> adjusted[i]]]
        order == SortedPositions([i \in 1..Len(eigen_pairs) |-> eigen_pairs[i].value])
        eigen_values_sorted == [k \in 1..Len(order) |-> eigen_pairs[order[k]].value]
        eigen_vectors_sorted == [k \in 1..Len(order) |-> eigen_pairs[order[k]].vector]
        eigen_values_total == sum(eigen.eigen_values)
    IN  [eigen_values |-> eigen_values_sorted,
         eigen_vectors |-> Transpose(eigen_vectors_sorted),
         explained_variance |->
            [k \in 1..Len(order) |-> [num |-> eigen_values_sorted[k], den |-> eigen_values_total]]]

\* apply_pca_on_indicators from the eigensolver's result on (lines 63-81):
\* the signs are adjusted and the matrix transposed (63-66), the pairs
\* (abs(eigenvalue), eigenvector) are formed (69) and sorted (72), both
\* members are collected (75-76), and the fractions are taken over the sum
\* of the solver's eigenvalues (78-79).
apply_pca_on_indicators(eigen) ==
    LET adjusted == Transpose(AdjustSigns(eigen.eigen_vectors))
        eigen_pairs == [i \in 1..Len(eigen.eigen_values) |->
                           [value |-> abs(eigen.eigen_values[i]), vector |-> adjusted[i]]]
        order == SortedPositions([i \in 1..Len(eigen_pairs) |-> eigen_pairs[i].value])
        eigen_values_sorted == [k \in 1..Len(order) |-> eigen_pairs[order[k]].value]
        eigen_vectors_sorted == [k \in 1..Len(order) |-> eigen_pairs[order[k]].vector]
        eigen_values_total == sum(eigen.eigen_values)
    IN  [eigen_values |-> eigen_values_sorted,
         eigen_vectors |-> Transpose(eigen_vectors_sorted),
         explained_variance |->
            [k \in 1..Len(order) |-> [num |-> eigen_values_sorted[k], den |-> eigen_values_total]]]

\* apply_pca_on_indicators(indicators), after stats.apply_pca has ended on
\* the same matrix, up to the eigensolver (lines 49-60): the standardisation
\* and the correlation matrix are those of apply_pca, so eig raises on the
\* same matrices and otherwise returns the same eigenvalues, each eigenvector
\* as before or negated.
CallApplyPcaOnIndicators ==
    /\ pc \in {<<"apply_pca_returned">>, <<"raised">>}
    /\ IF NotFinite(indicators)
       THEN /\ pc' = <<"on_indicators_raised">>
            /\ error' = "LinAlgError"
            /\ independance_eig' = independance_eig
       ELSE /\ independance_eig' \in SignVariants(eig_returned)
            /\ pc' = <<"on_indicators_eig">>
            /\ error' = error
    /\ UNCHANGED <<indicators, empiric_eigen_vectors, bootVars, genVars, jackVars, histVars,
                   pcaVars, frameVars, intervalVars, scoreVars, independance_pca>>

\* The rest of apply_pca_on_indicators (lines 63-81).
ApplyPcaOnIndicatorsReturn ==
    /\ pc = <<"on_indicators_eig">>
    /\ independance_pca' = apply_pca_on_indicators(independance_eig)
    /\ pc' = <<"on_indicators_returned">>
    /\ UNCHANGED <<indicators, empiric_eigen_vectors, bootVars, genVars, jackVars, histVars,
                   pcaVars, error, frameVars, intervalVars, scoreVars, independance_eig>>

NextEquivalent ==
    \/ CallApplyPca
    \/ ApplyPcaReturn
    \/ CallApplyPcaOnIndicators
    \/ ApplyPcaOnIndicatorsReturn

SpecEquivalent == InitPca /\ [][NextEquivalent]_vars

\* C30: on the same observation matrix apply_pca_on_indicators returns the
\* eigenvalues, the eigenvector matrix and the explained variance that
\* stats.apply_pca returned, and it raises where stats.apply_pca raised.
C30_SameResultAsApplyPca ==
    /\ pc = <<"on_indicators_returned">> =>
          /\ pca # None
          /\ independance_pca.eigen_values = pca.eigen_values
          /\ independance_pca.eigen_vectors = pca.eigen_vectors
          /\ independance_pca.explained_variance = pca.explained_variance
    /\ pc = <<"on_indicators_raised">> => (pca = None /\ error = "LinAlgError")

\* apply_pca_on_indicators has returned for eigenvalues of which one is
\* negative and which the solver did not return in descending order.
C30_Witness ==
    /\ pc = <<"on_indicators_returned">>
    /\ independance_eig.eigen_values = <<-1, 2000000, 1000001>>
    /\ independance_pca.eigen_values = <<2000000, 1000001, 1>>

====
